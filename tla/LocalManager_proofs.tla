------------------------ MODULE LocalManager_proofs ------------------------
(***************************************************************************)
(* Proofs about LocalManager, for any number of clients, groups, restarts  *)
(* of the agent and RPCs that run into their deadline.                     *)
(*                                                                         *)
(* The links of the proxy follow from what the agent can have said: a      *)
(* config that reaches the proxy names every connection of the config      *)
(* before it that is not being deleted (KeptInv), unless it comes from a   *)
(* new incarnation of the agent, and then the connections of the config    *)
(* before it have been closed (StaleInv).  So a group that goes leaves no  *)
(* connection of the registry behind, and a connection is linked once.     *)
(***************************************************************************)
EXTENDS LocalManager, TLAPS

\* Where the thread of a client and that of the proxy API client can be.
ClientPcs == {"start", "creating", "registering", "up", "activating", "deleting",
              "unregistering", "unlinked", "done", "crashed"}
ApiPcs    == {"register", "closing", "shutdown", "deleting", "unregistering",
              "unlinked", "connect", "stream", "applying", "crashed"}

\* Types, as precise as the steps need them.
TypeInv ==
    /\ Types
    /\ \A c \in Conns : pc[c] \in ClientPcs /\ cur[c] = c
    /\ pc[Api] \in ApiPcs
    /\ pc[Api] \in {"deleting", "unregistering", "unlinked"} => cur[Api] \in Conns

\* A connection that its client has not created yet.
New(c) == pc[c] \in {"start", "creating"}

\* Who owns the objects: the registries, or a call.
OwnerInv ==
    /\ \A c \in Conns : pc[c] = "start" => registry_sdk[c] = "none"
    /\ \A c \in Conns : registry_sdk[c] = "null" <=> pc[c] \in {"creating", "registering"}
    /\ \A c \in Conns : registry_sdk[c] # "none" => c \in alive
    /\ \A t \in Threads : pc[t] \in {"deleting", "unregistering", "unlinked"} =>
           ~New(cur[t]) /\ pc[cur[t]] # "registering"
    /\ \A t \in Threads : pc[t] = "unlinked" => cur[t] \notin registry
    /\ NoLeak

\* One event at most has a caller that waits for it.
OneWaits ==
    \A i \in DOMAIN queue : queue[i].client = "waits" =>
        rpc = "queued" /\ \A j \in DOMAIN queue : queue[j].client = "waits" => i = j

\* Who has the mutex, and what it waits for.
MutexInv ==
    /\ rpc = "none" <=> mx = Null
    /\ mx # Null => pc[mx] \in {"registering", "unregistering", "crashed"}
    /\ \A t \in Threads : pc[t] \in {"registering", "unregistering"} => mx = t
    /\ OneWaits /\ HolderIsAnswered

\* The mutex is held by the call that unregisters c.
Leaving(c) == mx # Null /\ pc[mx] = "unregistering" /\ cur[mx] = c

\* A connection that is registered, or about to be.
Present(c) == c \in registry \/ pc[c] = "registering"

\* At most one receiver in a group of a set of connections.
OneReceiver(S) ==
    \A c, d \in S \cap receivers : GroupOf[c] = GroupOf[d] => c = d

\* What the agent and its messages name: connections that were created, and no
\* two receivers of a group.
KnownInv ==
    /\ OneReceiver(linked) /\ \A c \in linked : ~New(c)
    /\ snap # Null => \A c \in snap : ~New(c)
    /\ command # Null => OneReceiver(command.conns) /\ \A c \in command.conns : ~New(c)
    /\ OneReceiver(cfg.conns) /\ \A c \in cfg.conns : ~New(c)
    /\ \A c \in old.conns : ~New(c) /\ pc[c] # "registering"

\* A connection that is to be unregistered is leaving, or gone.
QueueInv ==
    \A i \in DOMAIN queue :
        /\ ~New(queue[i].conn)
        /\ queue[i].op = "unregister" => Leaving(queue[i].conn) \/ ~Present(queue[i].conn)

\* The incarnations of the agent that the configs are from.
EpochInv ==
    /\ old.proxy <= epoch /\ cfg.proxy <= epoch /\ proxy_id <= epoch
    /\ cfg.proxy = epoch => proxy_id = epoch
    /\ snap # Null => proxy_id = epoch /\ command = Null
    /\ command # Null => /\ command.proxy <= epoch
                         /\ command.proxy = epoch => proxy_id = epoch
                         /\ pc[Api] \in {"stream", "applying"} => command.proxy = proxy_id
    /\ pc[Api] = "register" <=> proxy_id = 0
    /\ pc[Api] # "applying" => old = cfg
    /\ pc[Api] = "applying" => cfg.proxy = proxy_id

\* The configs keep a connection until it leaves.
KeptInv ==
    /\ snap # Null => \A c \in snap : Present(c) => c \in linked \/ Leaving(c)
    /\ command # Null /\ command.proxy = epoch =>
           \A c \in command.conns : Present(c) => c \in linked \/ Leaving(c)
    /\ cfg.proxy = epoch =>
           \A c \in cfg.conns : Present(c) =>
               (c \in linked /\ (snap # Null => c \in snap)) \/ Leaving(c)
    /\ command # Null /\ command.proxy = cfg.proxy =>
           \A c \in cfg.conns : Present(c) => c \in command.conns \/ Leaving(c)
    /\ \A c \in old.conns \cap registry : c \in cfg.conns \/ Leaving(c)

\* After a registration with a new incarnation, the connections of the last
\* config are deleted before the next config comes.
StaleInv ==
    /\ pc[Api] \in {"shutdown", "unlinked"} => registry \cap cfg.conns \subseteq ids
    /\ pc[Api] \in {"deleting", "unregistering"} =>
           registry \cap cfg.conns \subseteq ids \cup {cur[Api]}
    /\ pc[Api] \in {"connect", "stream"} /\ cfg.proxy # proxy_id => registry \cap cfg.conns = {}
    /\ pc[Api] = "applying" /\ old.proxy # proxy_id => registry \cap old.conns = {}

\* The links are those of the config that was reconciled last.
LinkInv ==
    /\ groups = KeysOf(old)
    /\ \A c \in registry : link[c] = IF c \in old.conns THEN KeyIn(old, c) ELSE Null
    /\ \A c \in Conns \ registry : link[c] = Null
    /\ \A k \in Keys : input[k] # Null =>
           /\ input[k] \in registry \cap receivers \cap old.conns
           /\ KeyIn(old, input[k]) = k
    /\ \A c \in registry \cap receivers \cap old.conns : input[KeyIn(old, c)] = c

IInv ==
    /\ TypeInv /\ OwnerInv /\ MutexInv /\ KnownInv /\ QueueInv
    /\ EpochInv /\ KeptInv /\ StaleInv /\ LinkInv
-----------------------------------------------------------------------------
(* Steps that leave a part of the invariant alone.                         *)

\* A step creates no connection anew, and lets a leaving connection leave.
Flow ==
    \A c \in Conns :
        /\ New(c)' => New(c)
        /\ Present(c)' => Present(c) \/ New(c)
        /\ pc'[c] = "registering" => pc[c] = "registering" \/ New(c)
        /\ Leaving(c) /\ Present(c)' => Leaving(c)'

\* The members of a config.
LEMMA ConfigParts ==
  ASSUME NEW f \in Configs
  PROVE  f.conns \subseteq Conns /\ f.proxy \in Proxies \cup {0}
  BY Zenon DEF Configs

\* An event of the agent's queue.
LEMMA EventParts ==
  ASSUME IInv, NEW i \in DOMAIN queue
  PROVE  queue[i] \in Events /\ queue[i].conn \in Conns
  <1>1. queue \in Seq(Events)
    BY Zenon DEF IInv, TypeInv, Types
  <1>2. queue[i] \in Events
    BY <1>1
  <1> QED BY <1>2, Zenon DEF Events

\* The agent's side of the invariant survives the steps of the clients.
LEMMA KnownFrame ==
  ASSUME IInv, Flow, UNCHANGED <<receivers, linked, snap, cfg, old>>,
         command' \in {command, Null}
  PROVE  KnownInv'
  <1>1. \A S : OneReceiver(S)' = OneReceiver(S)
    BY Zenon DEF OneReceiver
  <1>2. /\ linked \subseteq Conns /\ cfg.conns \subseteq Conns /\ old.conns \subseteq Conns
        /\ snap # Null => snap \subseteq Conns
        /\ command # Null => command.conns \subseteq Conns
    BY ConfigParts, Zenon DEF IInv, TypeInv, Types
  <1> QED BY <1>1, <1>2, Zenon DEF IInv, KnownInv, Flow

\* The configs keep what they kept.
LEMMA KeptFrame ==
  ASSUME IInv, Flow, UNCHANGED <<epoch, linked, snap, cfg, old>>, command' \in {command, Null}
  PROVE  KeptInv'
  <1>1. /\ cfg.conns \subseteq Conns /\ old.conns \subseteq Conns
        /\ snap # Null => snap \subseteq Conns
        /\ command # Null => command.conns \subseteq Conns
    BY ConfigParts, Zenon DEF IInv, TypeInv, Types
  <1>2. /\ \A c \in cfg.conns : ~New(c)
        /\ \A c \in old.conns : ~New(c) /\ pc[c] # "registering"
        /\ snap # Null => \A c \in snap : ~New(c)
        /\ command # Null => \A c \in command.conns : ~New(c)
    BY Zenon DEF IInv, KnownInv
  <1>3. \A c \in Conns : ~New(c) /\ Present(c)' => Present(c) /\ (Leaving(c) => Leaving(c)')
    BY Zenon DEF Flow
  <1>4. KeptInv
    BY Zenon DEF IInv
  <1>5. snap # Null => \A c \in snap : Present(c)' => c \in linked \/ Leaving(c)'
    BY <1>1, <1>2, <1>3, <1>4, Zenon DEF KeptInv
  <1>6. command' # Null /\ command.proxy = epoch =>
            \A c \in command.conns : Present(c)' => c \in linked \/ Leaving(c)'
    BY <1>1, <1>2, <1>3, <1>4, Zenon DEF KeptInv
  <1>7. cfg.proxy = epoch =>
            \A c \in cfg.conns : Present(c)' =>
                (c \in linked /\ (snap # Null => c \in snap)) \/ Leaving(c)'
    BY <1>1, <1>2, <1>3, <1>4, Zenon DEF KeptInv
  <1>8. command' # Null /\ command.proxy = cfg.proxy =>
            \A c \in cfg.conns : Present(c)' => c \in command.conns \/ Leaving(c)'
    BY <1>1, <1>2, <1>3, <1>4, Zenon DEF KeptInv
  <1>9. \A c \in old.conns \cap registry' : c \in cfg.conns \/ Leaving(c)'
    BY <1>1, <1>2, <1>3, <1>4, Zenon DEF KeptInv, Present
  <1> QED BY <1>5, <1>6, <1>7, <1>8, <1>9, Zenon DEF KeptInv

\* The events of the queue stay as they are.
LEMMA QueueFrame ==
  ASSUME IInv, Flow, UNCHANGED queue
  PROVE  QueueInv'
  <1>1. \A i \in DOMAIN queue : queue[i].conn \in Conns
    BY EventParts, Zenon
  <1> QED BY <1>1, Zenon DEF IInv, QueueInv, Flow

\* The incarnations do.
LEMMA EpochFrame ==
  ASSUME IInv, UNCHANGED <<epoch, snap, command, cfg, old, proxy_id>>,
         \/ pc'[Api] = pc[Api]
         \/ {pc[Api], pc'[Api]} \cap {"register", "stream", "applying"} = {}
  PROVE  EpochInv'
  BY Zenon DEF IInv, EpochInv

\* So does what shutdown() has still to delete.
LEMMA StaleFrame ==
  ASSUME IInv, UNCHANGED <<cfg, old, proxy_id, ids>>, pc'[Api] = pc[Api], cur'[Api] = cur[Api],
         \A c \in registry' : c \in registry \/ c \notin old.conns
  PROVE  StaleInv'
  BY Zenon DEF IInv, StaleInv, EpochInv

\* And so do the links.
LEMMA LinkFrame ==
  ASSUME IInv, UNCHANGED <<receivers, registry, link, input, groups, old>>
  PROVE  LinkInv'
  BY DEF IInv, LinkInv, KeysOf, KeyIn

\* The mutex, in a step of threads that have nothing to do with it.
LEMMA MutexFrame ==
  ASSUME IInv, UNCHANGED <<mx, rpc, queue>>,
         \A t \in Threads :
             \/ pc'[t] = pc[t] /\ cur'[t] = cur[t]
             \/ /\ pc[t] \notin {"registering", "unregistering", "crashed"}
                /\ pc'[t] \notin {"registering", "unregistering"}
  PROVE  MutexInv'
  <1>1. mx # Null => mx \in Threads /\ pc'[mx] = pc[mx] /\ cur'[mx] = cur[mx]
    BY Zenon DEF IInv, TypeInv, Types, MutexInv
  <1> QED BY <1>1, Zenon DEF IInv, MutexInv, OneWaits, HolderIsAnswered

\* What Goto does.
LEMMA GotoStep ==
  ASSUME IInv, NEW t \in Threads, NEW w, Goto(t, w)
  PROVE  \A s \in Threads : pc'[s] = IF s = t THEN w ELSE pc[s]
  BY Zenon DEF IInv, TypeInv, Types, Goto

-----------------------------------------------------------------------------
(* The calls of the clients.                                               *)

\* Steps of a client without the mutex.
LEMMA ClientStep ==
  ASSUME IInv, NEW c \in Conns, NEW w \in ClientPcs, Goto(c, w),
         pc[c] \notin {"registering", "unregistering", "crashed"},
         w \notin {"start", "registering", "unregistering"}, w = "creating" => New(c),
         UNCHANGED <<cur, mx, registry, groupvars, ids, proxy_id, rpc, agentvars,
                     timeouts, receivers>>,
         alive' \subseteq Conns, registry_sdk' \in [Conns -> {"none", "null", "conn"}],
         OwnerInv'
  PROVE  IInv'
  <1>   \A s \in Threads : pc'[s] = IF s = c THEN w ELSE pc[s]
    BY GotoStep, Zenon DEF Threads
  <1>   Api \in Threads /\ Api # c /\ Conns \subseteq Threads
    BY LocalManagerAssumption, Zenon DEF Threads
  <1>   UNCHANGED <<cur, mx, registry, link, input, groups, cfg, old, ids, proxy_id, rpc,
                    epoch, queue, linked, snap, command, timeouts, receivers>>
    BY Zenon DEF groupvars, agentvars
  <1>1. mx # c /\ (mx # Null => mx \in Threads)
    BY LocalManagerAssumption DEF IInv, MutexInv, TypeInv, Types
  <1>2. Flow
    BY <1>1, Zenon DEF Flow, New, Present, Leaving
  <1>3. TypeInv'
    <2>1. Types'
      BY DEF IInv, TypeInv, Types, Goto, ClientPcs
    <2> QED BY <2>1, Zenon DEF IInv, TypeInv
  <1>4. MutexInv'
    BY MutexFrame, Zenon
  <1> QED BY <1>2, <1>3, <1>4, KnownFrame, KeptFrame, QueueFrame, EpochFrame, StaleFrame,
             LinkFrame, Zenon
          DEF IInv

\* The id is reserved and the object allocated.
LEMMA CreateConnectionStep ==
  ASSUME IInv, NEW c \in Conns, CreateConnection(c)
  PROVE  IInv'
  <1>   /\ pc[c] = "start" /\ Goto(c, "creating")
        /\ registry_sdk' = [registry_sdk EXCEPT ![c] = "null"]
        /\ alive' = alive \cup {c}
        /\ UNCHANGED <<cur, mx, registry, groupvars, ids, proxy_id, rpc, agentvars,
                       timeouts, receivers>>
    BY Zenon DEF CreateConnection
  <1>1. \A s \in Threads : pc'[s] = IF s = c THEN "creating" ELSE pc[s]
    BY GotoStep, Zenon DEF Threads
  <1>2. /\ alive' \subseteq Conns
        /\ registry_sdk' \in [Conns -> {"none", "null", "conn"}]
        /\ \A d \in Conns : registry_sdk'[d] = IF d = c THEN "null" ELSE registry_sdk[d]
    BY Zenon DEF IInv, TypeInv, Types
  <1>3. OwnerInv'
    <2>1. c \in Threads /\ Conns \subseteq Threads /\ cur[c] = c
      BY Zenon DEF Threads, IInv, TypeInv
    <2>2. NoLeak'
      BY <1>1, <1>2, <2>1 DEF IInv, OwnerInv, NoLeak
    <2>3. \A t \in Threads : pc[t] \in {"deleting", "unregistering", "unlinked"} => cur[t] \in Conns
      BY Zenon DEF IInv, TypeInv, Threads
    <2> QED BY <1>1, <1>2, <2>1, <2>2, <2>3 DEF IInv, OwnerInv, New
  <1> QED BY <1>2, <1>3, ClientStep, Zenon DEF ClientPcs, New

\* configure_memif() fails.
LEMMA ConfigureFailsStep ==
  ASSUME IInv, NEW c \in Conns, ConfigureFails(c)
  PROVE  IInv'
  <1>   /\ pc[c] = "creating" /\ Goto(c, "done")
        /\ registry_sdk' = [registry_sdk EXCEPT ![c] = "none"]
        /\ alive' = alive \ {c}
        /\ UNCHANGED <<cur, mx, registry, groupvars, ids, proxy_id, rpc, agentvars,
                       timeouts, receivers>>
    BY Zenon DEF ConfigureFails, Discard
  <1>1. \A s \in Threads : pc'[s] = IF s = c THEN "done" ELSE pc[s]
    BY GotoStep, Zenon DEF Threads
  <1>2. /\ alive' \subseteq Conns
        /\ registry_sdk' \in [Conns -> {"none", "null", "conn"}]
        /\ \A d \in Conns : registry_sdk'[d] = IF d = c THEN "none" ELSE registry_sdk[d]
    BY Zenon DEF IInv, TypeInv, Types
  <1>3. OwnerInv'
    <2>1. c \in Threads /\ Conns \subseteq Threads /\ cur[c] = c
      BY Zenon DEF Threads, IInv, TypeInv
    <2>2. NoLeak'
      BY <1>1, <1>2, <2>1 DEF IInv, OwnerInv, NoLeak, TypeInv
    <2>3. \A t \in Threads : pc[t] \in {"deleting", "unregistering", "unlinked"} => cur[t] \in Conns
      BY Zenon DEF IInv, TypeInv, Threads
    <2> QED BY <1>1, <1>2, <2>1, <2>2, <2>3 DEF IInv, OwnerInv, New
  <1> QED BY <1>2, <1>3, ClientStep, Zenon DEF ClientPcs, New

\* activate_connection_sdk(), and the look-up of delete_connection_sdk().
LEMMA LookupStep ==
  ASSUME IInv, NEW c \in Conns, ActivateLookup(c) \/ ActivateResume(c) \/ DeleteLookup(c)
  PROVE  IInv'
  <1>1. PICK w \in {"activating", "up", "deleting", "done"} :
            /\ Goto(c, w)
            /\ pc[c] \in {"up", "activating"}
            /\ UNCHANGED <<cur, mx, sdkvars, groupvars, ids, proxy_id, rpc, agentvars,
                           timeouts, receivers>>
    BY Zenon DEF ActivateLookup, ActivateResume, DeleteLookup
  <1>2. \A s \in Threads : pc'[s] = IF s = c THEN w ELSE pc[s]
    BY <1>1, GotoStep, Zenon DEF Threads
  <1>3. UNCHANGED <<alive, registry_sdk, registry>> /\ cur' = cur
    BY <1>1, Zenon DEF sdkvars
  <1>4. OwnerInv'
    <2>1. c \in Threads /\ Conns \subseteq Threads /\ cur[c] = c
      BY Zenon DEF Threads, IInv, TypeInv
    <2>2. NoLeak'
      BY <1>1, <1>2, <1>3, <2>1 DEF IInv, OwnerInv, NoLeak
    <2>3. \A t \in Threads : pc[t] \in {"deleting", "unregistering", "unlinked"} => cur[t] \in Conns
      BY Zenon DEF IInv, TypeInv, Threads
    <2> QED BY <1>1, <1>2, <1>3, <2>1, <2>2, <2>3 DEF IInv, OwnerInv, New
  <1>5. alive' \subseteq Conns /\ registry_sdk' \in [Conns -> {"none", "null", "conn"}]
    BY <1>3, Zenon DEF IInv, TypeInv, Types
  <1> QED BY <1>1, <1>3, <1>4, <1>5, ClientStep, Zenon DEF ClientPcs, New

-----------------------------------------------------------------------------
(* The calls under the mutex.                                              *)

\* A thread that deletes works on a connection.
LEMMA CurParts ==
  ASSUME IInv, NEW t \in Threads, pc[t] \in {"deleting", "unregistering", "unlinked"}
  PROVE  cur[t] \in Conns
  BY Zenon DEF IInv, TypeInv, Threads

\* The objects keep their owners over a step that only changes where a thread
\* is in delete_connection_sdk(), or takes it out of it.
LEMMA OwnerFrame ==
  ASSUME IInv, UNCHANGED <<cur, alive, registry_sdk, registry>>,
         \A s \in Threads :
             \/ pc'[s] = pc[s]
             \/ pc[s] = "deleting" /\ pc'[s] = "unregistering"
             \/ /\ pc[s] \in {"activating", "deleting", "unregistering", "unlinked"}
                /\ pc'[s] = "crashed" /\ cur[s] \notin alive
  PROVE  OwnerInv'
  <1>1. Conns \subseteq Threads
    BY Zenon DEF Threads
  <1>2. \A c \in alive \ registry :
            \E s \in Threads : /\ cur[s] = c /\ pc'[s] = pc[s]
                               /\ pc[s] \in {"creating", "registering", "unlinked"}
    <2> SUFFICES ASSUME NEW c \in alive \ registry
                 PROVE  \E s \in Threads : /\ cur[s] = c /\ pc'[s] = pc[s]
                                           /\ pc[s] \in {"creating", "registering", "unlinked"}
      BY Zenon
    <2>1. PICK s \in Threads : cur[s] = c /\ pc[s] \in {"creating", "registering", "unlinked"}
      BY Zenon DEF IInv, OwnerInv, NoLeak
    <2>2. pc'[s] = pc[s]
      BY <2>1, Zenon
    <2> QED BY <2>1, <2>2, Zenon
  <1>3. registry = {c \in Conns : registry_sdk[c] = "conn"}
    BY Zenon DEF IInv, OwnerInv, NoLeak
  <1>4. NoLeak'
    BY <1>2, <1>3 DEF NoLeak
  <1>5. \A c \in Conns : /\ pc'[c] \in {"start", "creating", "registering"} => pc'[c] = pc[c]
                         /\ pc[c] \in {"start", "creating", "registering"} => pc'[c] = pc[c]
    BY <1>1, Zenon
  <1>6. \A s \in Threads : pc'[s] \in {"deleting", "unregistering", "unlinked"} =>
            /\ cur[s] \in Conns /\ ~New(cur[s]) /\ pc[cur[s]] # "registering"
            /\ pc'[s] = "unlinked" => pc[s] = "unlinked"
    <2> SUFFICES ASSUME NEW s \in Threads, pc'[s] \in {"deleting", "unregistering", "unlinked"}
                 PROVE  /\ cur[s] \in Conns /\ ~New(cur[s]) /\ pc[cur[s]] # "registering"
                        /\ pc'[s] = "unlinked" => pc[s] = "unlinked"
      BY Zenon
    <2>1. /\ pc[s] \in {"deleting", "unregistering", "unlinked"}
          /\ pc'[s] = "unlinked" => pc[s] = "unlinked"
      BY Zenon
    <2> QED BY <2>1, CurParts, Zenon DEF IInv, OwnerInv
  <1>7. \A c \in Conns : pc'[c] = "start" => registry_sdk[c] = "none"
    BY <1>5, Zenon DEF IInv, OwnerInv
  <1>8. \A c \in Conns : registry_sdk[c] = "null" <=> pc'[c] \in {"creating", "registering"}
    BY <1>5, Zenon DEF IInv, OwnerInv
  <1>9. \A c \in Conns : registry_sdk[c] # "none" => c \in alive
    BY Zenon DEF IInv, OwnerInv
  <1>10. \A s \in Threads : pc'[s] \in {"deleting", "unregistering", "unlinked"} =>
             ~New(cur[s])' /\ pc'[cur[s]] # "registering"
    BY <1>5, <1>6, Zenon DEF New
  <1>11. \A s \in Threads : pc'[s] = "unlinked" => cur[s] \notin registry
    BY <1>6, Zenon DEF IInv, OwnerInv
  <1> QED BY <1>4, <1>7, <1>8, <1>9, <1>10, <1>11, Zenon DEF OwnerInv

\* The numbers of the incarnations.
LEMMA EpochParts ==
  ASSUME IInv
  PROVE  /\ epoch \in Nat /\ epoch # 0 /\ epoch <= epoch /\ 0 <= epoch
         /\ cfg.proxy \in Nat /\ old.proxy \in Nat /\ proxy_id \in Nat
         /\ command # Null => command.proxy \in Nat
  <1>1. /\ Proxies \cup {0} \subseteq Nat /\ \A e \in Proxies : e # 0 /\ e <= e /\ 0 <= e
    BY LocalManagerAssumption DEF Proxies
  <1>2. /\ epoch \in Proxies /\ proxy_id \in Proxies \cup {0} /\ cfg \in Configs
        /\ old \in Configs /\ (command # Null => command \in Configs)
    BY Zenon DEF IInv, TypeInv, Types
  <1> QED BY <1>1, <1>2, ConfigParts, Zenon

\* An incarnation is older than the next one.
LEMMA EarlierProxy ==
  ASSUME NEW p \in Nat, NEW e \in Nat, p <= e
  PROVE  p <= e + 1 /\ p # e + 1
  OBVIOUS

\* A request enters the agent's queue.
LEMMA PostStep ==
  ASSUME IInv, NEW op \in {"register", "unregister"}, NEW c \in Conns,
         mx = Null, Post(op, c)
  PROVE  /\ OneWaits' /\ rpc' = "queued" /\ queue' \in Seq(Events)
         /\ \A i \in DOMAIN queue' : \/ i \in DOMAIN queue /\ queue'[i] = queue[i]
                                     \/ queue'[i].conn = c /\ queue'[i].op = op
         /\ \E i \in DOMAIN queue' : queue'[i].client = "waits" /\ queue'[i].conn = c
  <1> DEFINE e == [op |-> op, conn |-> c, proxy |-> proxy_id, client |-> "waits"]
  <1>1. e \in Events /\ e.conn = c /\ e.op = op /\ e.client = "waits"
    BY Zenon DEF IInv, TypeInv, Types, Events
  <1>2. queue \in Seq(Events)
    BY Zenon DEF IInv, TypeInv, Types
  <1>3. queue' = Append(queue, e) /\ rpc' = "queued"
    BY Zenon DEF Post
  <1> HIDE DEF e
  <1>4. /\ queue' \in Seq(Events) /\ Len(queue') = Len(queue) + 1
        /\ \A i \in 1 .. Len(queue) : queue'[i] = queue[i]
        /\ queue'[Len(queue) + 1] = e
    BY <1>1, <1>2, <1>3
  <1>5. DOMAIN queue = 1 .. Len(queue) /\ DOMAIN queue' = 1 .. Len(queue) + 1 /\ Len(queue) \in Nat
    BY <1>2, <1>4
  <1>6. \A i \in DOMAIN queue : queue[i].client # "waits"
    BY Zenon DEF IInv, MutexInv, OneWaits
  <1>7. \A i \in DOMAIN queue' : queue'[i].client = "waits" => i = Len(queue) + 1
    BY <1>4, <1>5, <1>6
  <1>8. OneWaits'
    BY <1>3, <1>7, Zenon DEF OneWaits
  <1> QED BY <1>1, <1>3, <1>4, <1>5, <1>8

\* Nobody waits for an event once the answer is there.
LEMMA AnsweredFrame ==
  ASSUME IInv, rpc # "queued", queue' = queue
  PROVE  OneWaits'
  <1>1. \A i \in DOMAIN queue : queue[i].client # "waits"
    BY Zenon DEF IInv, MutexInv, OneWaits
  <1> QED BY <1>1, Zenon DEF OneWaits

\* The mutex is taken and the registration posted.
LEMMA RegisterConnectionStep ==
  ASSUME IInv, NEW c \in Conns, RegisterConnection(c)
  PROVE  IInv'
  <1>   /\ pc[c] = "creating" /\ mx = Null /\ mx' = c
        /\ Goto(c, "registering") /\ Post("register", c)
        /\ UNCHANGED <<cur, alive, registry_sdk, registry, link, input, groups, cfg, old, ids,
                       proxy_id, epoch, linked, snap, command, timeouts, receivers>>
    BY Zenon DEF RegisterConnection, Lock, sdkvars, groupvars
  <1>   \A s \in Threads : pc'[s] = IF s = c THEN "registering" ELSE pc[s]
    BY GotoStep, Zenon DEF Threads
  <1>   Api \in Threads /\ Api # c /\ Conns \subseteq Threads /\ c # Null /\ cur[c] = c
    BY LocalManagerAssumption, Zenon DEF Threads, IInv, TypeInv
  <1>1. /\ OneWaits' /\ rpc' = "queued" /\ queue' \in Seq(Events)
        /\ \A i \in DOMAIN queue' : \/ i \in DOMAIN queue /\ queue'[i] = queue[i]
                                    \/ queue'[i].conn = c /\ queue'[i].op = "register"
        /\ \E i \in DOMAIN queue' : queue'[i].client = "waits" /\ queue'[i].conn = c
    BY PostStep, Zenon
  <1>2. Flow
    BY Zenon DEF Flow, New, Present, Leaving
  <1>3. TypeInv'
    <2>1. Types'
      BY <1>1, Zenon DEF IInv, TypeInv, Types, Goto
    <2> QED BY <2>1, Zenon DEF IInv, TypeInv, ClientPcs
  <1>4. OwnerInv'
    <2>1. NoLeak'
      BY DEF IInv, OwnerInv, NoLeak
    <2>2. \A t \in Threads : pc[t] \in {"deleting", "unregistering", "unlinked"} =>
              cur[t] \in Conns /\ cur[t] # c
      BY CurParts, Zenon DEF IInv, OwnerInv, New
    <2> QED BY <2>1, <2>2, Zenon DEF IInv, OwnerInv, New
  <1>5. MutexInv'
    <2>1. \A t \in Threads : pc[t] \notin {"registering", "unregistering"}
      BY LocalManagerAssumption, Zenon DEF IInv, MutexInv
    <2> QED BY <1>1, <2>1, Zenon DEF MutexInv, HolderIsAnswered
  <1>6. QueueInv'
    <2> SUFFICES ASSUME NEW i \in DOMAIN queue'
                 PROVE  /\ ~New(queue[i].conn)'
                        /\ queue'[i].op = "unregister" =>
                               Leaving(queue[i].conn)' \/ ~Present(queue[i].conn)'
      BY Zenon DEF QueueInv
    <2>1. CASE i \in DOMAIN queue /\ queue'[i] = queue[i]
      <3>1. /\ queue[i].conn \in Conns /\ ~New(queue[i].conn)
            /\ queue[i].op = "unregister" => ~Present(queue[i].conn)
        BY <2>1, EventParts, Zenon DEF IInv, QueueInv, Leaving
      <3> QED BY <2>1, <3>1, Zenon DEF New, Present
    <2>2. CASE queue'[i].conn = c /\ queue'[i].op = "register"
      BY <2>2, Zenon DEF New
    <2> QED BY <1>1, <2>1, <2>2, Zenon
  <1> QED BY <1>2, <1>3, <1>4, <1>5, <1>6, KnownFrame, KeptFrame, EpochFrame, StaleFrame,
             LinkFrame, Zenon
          DEF IInv

\* The early returns of create_connection_sdk() under the mutex.
LEMMA DiscardStep ==
  ASSUME IInv, NEW c \in Conns, RegisterFails(c) \/ EstablishFails(c)
  PROVE  IInv'
  <1>   /\ pc[c] = "registering" /\ mx = c /\ mx' = Null /\ rpc # "queued" /\ rpc' = "none"
        /\ Goto(c, "done")
        /\ registry_sdk' = [registry_sdk EXCEPT ![c] = "none"] /\ alive' = alive \ {c}
        /\ UNCHANGED <<cur, registry, link, input, groups, cfg, old, ids, proxy_id, epoch,
                       queue, linked, snap, command, timeouts, receivers>>
    BY Zenon DEF RegisterFails, EstablishFails, Discard, Unlock, groupvars, agentvars
  <1>   \A s \in Threads : pc'[s] = IF s = c THEN "done" ELSE pc[s]
    BY GotoStep, Zenon DEF Threads
  <1>   Api \in Threads /\ Api # c /\ Conns \subseteq Threads /\ c # Null /\ cur[c] = c
    BY LocalManagerAssumption, Zenon DEF Threads, IInv, TypeInv
  <1>1. \A d \in Conns : registry_sdk'[d] = IF d = c THEN "none" ELSE registry_sdk[d]
    BY Zenon DEF IInv, TypeInv, Types
  <1>2. Flow
    BY Zenon DEF Flow, New, Present, Leaving
  <1>3. TypeInv'
    <2>1. Types'
      BY Zenon DEF IInv, TypeInv, Types, Goto
    <2> QED BY <2>1, Zenon DEF IInv, TypeInv, ClientPcs
  <1>4. OwnerInv'
    <2>1. NoLeak'
      <3>1. registry_sdk[c] = "null" /\ registry = {d \in Conns : registry_sdk[d] = "conn"}
        BY Zenon DEF IInv, OwnerInv, NoLeak
      <3>2. \A d \in alive \ registry : d # c =>
                \E t \in Threads : /\ cur[t] = d /\ t # c
                                   /\ pc[t] \in {"creating", "registering", "unlinked"}
        BY DEF IInv, OwnerInv, NoLeak
      <3> QED BY <1>1, <3>1, <3>2 DEF NoLeak
    <2>2. \A t \in Threads : pc[t] \in {"deleting", "unregistering", "unlinked"} =>
              cur[t] \in Conns /\ cur[t] # c
      BY CurParts, Zenon DEF IInv, OwnerInv, New
    <2> QED BY <1>1, <2>1, <2>2 DEF IInv, OwnerInv, New
  <1>5. MutexInv'
    <2>1. OneWaits'
      BY AnsweredFrame, Zenon
    <2> QED BY <2>1, Zenon DEF IInv, MutexInv, HolderIsAnswered
  <1> QED BY <1>2, <1>3, <1>4, <1>5, QueueFrame, KnownFrame, KeptFrame, EpochFrame, StaleFrame,
             LinkFrame, Zenon
          DEF IInv

\* The connection enters both registries, with no link.
LEMMA EstablishSucceedsStep ==
  ASSUME IInv, NEW c \in Conns, EstablishSucceeds(c)
  PROVE  IInv'
  <1>   /\ pc[c] = "registering" /\ mx = c /\ mx' = Null /\ rpc # "queued" /\ rpc' = "none"
        /\ Goto(c, "up")
        /\ registry_sdk' = [registry_sdk EXCEPT ![c] = "conn"] /\ registry' = registry \cup {c}
        /\ UNCHANGED <<cur, alive, link, input, groups, cfg, old, ids, proxy_id, epoch,
                       queue, linked, snap, command, timeouts, receivers>>
    BY Zenon DEF EstablishSucceeds, Unlock, groupvars, agentvars
  <1>   \A s \in Threads : pc'[s] = IF s = c THEN "up" ELSE pc[s]
    BY GotoStep, Zenon DEF Threads
  <1>   Api \in Threads /\ Api # c /\ Conns \subseteq Threads /\ c # Null /\ cur[c] = c
    BY LocalManagerAssumption, Zenon DEF Threads, IInv, TypeInv
  <1>1. \A d \in Conns : registry_sdk'[d] = IF d = c THEN "conn" ELSE registry_sdk[d]
    BY Zenon DEF IInv, TypeInv, Types
  <1>2. Flow
    BY Zenon DEF Flow, New, Present, Leaving
  <1>3. TypeInv'
    <2>1. Types'
      BY Zenon DEF IInv, TypeInv, Types, Goto
    <2> QED BY <2>1, Zenon DEF IInv, TypeInv, ClientPcs
  <1>4. OwnerInv'
    <2>1. NoLeak'
      <3>1. registry_sdk[c] = "null" /\ registry = {d \in Conns : registry_sdk[d] = "conn"}
        BY Zenon DEF IInv, OwnerInv, NoLeak
      <3>2. \A d \in alive \ registry : d # c =>
                \E t \in Threads : /\ cur[t] = d /\ t # c
                                   /\ pc[t] \in {"creating", "registering", "unlinked"}
        BY DEF IInv, OwnerInv, NoLeak
      <3> QED BY <1>1, <3>1, <3>2 DEF NoLeak
    <2>2. \A t \in Threads : pc[t] \in {"deleting", "unregistering", "unlinked"} =>
              cur[t] \in Conns /\ cur[t] # c
      BY CurParts, Zenon DEF IInv, OwnerInv, New
    <2> QED BY <1>1, <2>1, <2>2 DEF IInv, OwnerInv, New
  <1>5. MutexInv'
    <2>1. OneWaits'
      BY AnsweredFrame, Zenon
    <2> QED BY <2>1, Zenon DEF IInv, MutexInv, HolderIsAnswered
  <1>6. c \notin old.conns /\ c \notin registry
    BY Zenon DEF IInv, KnownInv, OwnerInv, NoLeak
  <1>7. LinkInv'
    BY <1>6 DEF IInv, LinkInv, KeysOf, KeyIn
  <1> QED BY <1>2, <1>3, <1>4, <1>5, <1>6, <1>7, QueueFrame, KnownFrame, KeptFrame, EpochFrame,
             StaleFrame, Zenon
          DEF IInv

-----------------------------------------------------------------------------
(* The deletion of a connection, by its client or by the proxy API client. *)

\* The mutex is taken and the unregistration posted, or refused.
LEMMA UnregisterConnectionStep ==
  ASSUME IInv, NEW t \in Threads, UnregisterConnection(t)
  PROVE  IInv'
  <1>   /\ pc[t] = "deleting" /\ cur[t] \in alive /\ mx = Null /\ mx' = t
        /\ Goto(t, "unregistering")
        /\ Post("unregister", cur[t]) \/ (rpc' = "err" /\ queue' = queue)
        /\ UNCHANGED <<cur, alive, registry_sdk, registry, link, input, groups, cfg, old, ids,
                       proxy_id, epoch, linked, snap, command, timeouts, receivers>>
    BY Zenon DEF UnregisterConnection, Lock, sdkvars, groupvars
  <1>   \A s \in Threads : pc'[s] = IF s = t THEN "unregistering" ELSE pc[s]
    BY GotoStep, Zenon
  <1>   Api \in Threads /\ Conns \subseteq Threads /\ t # Null /\ Null \notin Threads
    BY LocalManagerAssumption, Zenon DEF Threads
  <1>   cur[t] \in Conns /\ ~New(cur[t]) /\ pc[cur[t]] # "registering"
    BY CurParts, Zenon DEF IInv, OwnerInv
  <1>1. /\ OneWaits' /\ rpc' \in {"queued", "err"} /\ queue' \in Seq(Events)
        /\ \A i \in DOMAIN queue' : \/ i \in DOMAIN queue /\ queue'[i] = queue[i]
                                    \/ queue'[i].conn = cur[t]
        /\ rpc' = "queued" =>
               \E i \in DOMAIN queue' : queue'[i].client = "waits" /\ queue'[i].conn = cur[t]
    <2>1. CASE Post("unregister", cur[t])
      BY <2>1, PostStep, Zenon
    <2>2. CASE rpc' = "err" /\ queue' = queue
      <3>1. OneWaits'
        BY <2>2, Zenon DEF IInv, MutexInv, OneWaits
      <3> QED BY <2>2, <3>1, Zenon DEF IInv, TypeInv, Types
    <2> QED BY <2>1, <2>2, Zenon
  <1>2. Flow
    BY Zenon DEF Flow, New, Present, Leaving
  <1>3. TypeInv'
    <2>1. Types'
      BY <1>1, Zenon DEF IInv, TypeInv, Types, Goto
    <2>2. \A c \in Conns : pc'[c] \in ClientPcs /\ cur'[c] = c
      BY Zenon DEF IInv, TypeInv, ClientPcs
    <2>3. pc'[Api] \in ApiPcs /\ (pc'[Api] = "unregistering" => cur[Api] \in Conns)
      BY Zenon DEF IInv, TypeInv, ApiPcs
    <2> QED BY <2>1, <2>2, <2>3, Zenon DEF IInv, TypeInv
  <1>4. OwnerInv'
    BY OwnerFrame, Zenon
  <1>5. MutexInv'
    <2>1. \A s \in Threads : pc[s] \notin {"registering", "unregistering"}
      BY Zenon DEF IInv, MutexInv
    <2> QED BY <1>1, <2>1, Zenon DEF MutexInv, HolderIsAnswered
  <1>6. QueueInv'
    <2> SUFFICES ASSUME NEW i \in DOMAIN queue'
                 PROVE  /\ ~New(queue[i].conn)'
                        /\ queue'[i].op = "unregister" =>
                               Leaving(queue[i].conn)' \/ ~Present(queue[i].conn)'
      BY Zenon DEF QueueInv
    <2>1. CASE i \in DOMAIN queue /\ queue'[i] = queue[i]
      <3>1. /\ queue[i].conn \in Conns /\ ~New(queue[i].conn)
            /\ queue[i].op = "unregister" => ~Present(queue[i].conn)
        BY <2>1, EventParts, Zenon DEF IInv, QueueInv, Leaving
      <3> QED BY <2>1, <3>1, Zenon DEF New, Present
    <2>2. CASE queue'[i].conn = cur[t]
      BY <2>2, Zenon DEF New, Leaving
    <2> QED BY <1>1, <2>1, <2>2, Zenon
  <1>7. StaleInv'
    BY Zenon DEF IInv, StaleInv, EpochInv
  <1> QED BY <1>2, <1>3, <1>4, <1>5, <1>6, <1>7, KnownFrame, KeptFrame, EpochFrame,
             LinkFrame, Zenon
          DEF IInv

\* The groups of the config that was reconciled last.
LEMMA OldKeys ==
  ASSUME IInv, NEW c \in old.conns
  PROVE  KeyIn(old, c) \in Keys
  <1>1. groups \subseteq Keys /\ groups = KeysOf(old)
    BY Zenon DEF IInv, LinkInv, TypeInv, Types
  <1> QED BY <1>1, Zenon DEF KeysOf

\* The connection leaves both registries and its group.
LEMMA DeleteUnlinkStep ==
  ASSUME IInv, NEW t \in Threads, DeleteUnlink(t)
  PROVE  IInv'
  <1>   /\ pc[t] = "unregistering" /\ cur[t] \in alive /\ mx = t /\ mx' = Null
        /\ rpc # "queued" /\ rpc' = "none"
        /\ link' = Unlinked(cur[t]) /\ input' = InputWithout(cur[t])
        /\ registry' = registry \ {cur[t]}
        /\ registry_sdk' = [registry_sdk EXCEPT ![cur[t]] = "none"]
        /\ Goto(t, "unlinked")
        /\ UNCHANGED <<cur, alive, groups, cfg, old, ids, proxy_id, epoch, queue, linked, snap,
                       command, timeouts, receivers>>
    BY Zenon DEF DeleteUnlink, Unlock, agentvars
  <1>   \A s \in Threads : pc'[s] = IF s = t THEN "unlinked" ELSE pc[s]
    BY GotoStep, Zenon
  <1>   Api \in Threads /\ Conns \subseteq Threads /\ t # Null /\ Null \notin Threads
    BY LocalManagerAssumption, Zenon DEF Threads
  <1>   cur[t] \in Conns /\ ~New(cur[t]) /\ pc[cur[t]] # "registering"
    BY CurParts, Zenon DEF IInv, OwnerInv
  <1>1. \A d \in Conns : /\ registry_sdk'[d] = IF d = cur[t] THEN "none" ELSE registry_sdk[d]
                         /\ link'[d] = IF d = cur[t] THEN Null ELSE link[d]
    BY Zenon DEF IInv, TypeInv, Types, Unlinked
  <1>2. \A k \in Keys : input'[k] = IF input[k] = cur[t] /\ link[cur[t]] = k THEN Null ELSE input[k]
    BY Zenon DEF InputWithout
  <1>3. Flow
    BY Zenon DEF Flow, New, Present, Leaving
  <1>4. TypeInv'
    <2>1. link' \in [Conns -> Keys \cup {Null}]
      BY Zenon DEF IInv, TypeInv, Types, Unlinked
    <2>2. input' \in [Keys -> receivers \cup {Null}]
      BY Zenon DEF IInv, TypeInv, Types, InputWithout
    <2>3. Types'
      BY <2>1, <2>2, Zenon DEF IInv, TypeInv, Types, Goto
    <2>4. \A c \in Conns : pc'[c] \in ClientPcs /\ cur'[c] = c
      BY Zenon DEF IInv, TypeInv, ClientPcs
    <2>5. pc'[Api] \in ApiPcs /\ (pc'[Api] = "unlinked" => cur[Api] \in Conns)
      BY Zenon DEF IInv, TypeInv, ApiPcs
    <2> QED BY <2>3, <2>4, <2>5, Zenon DEF IInv, TypeInv
  <1>5. OwnerInv'
    <2>1. registry = {d \in Conns : registry_sdk[d] = "conn"} /\ alive \subseteq Conns
      BY Zenon DEF IInv, OwnerInv, NoLeak, TypeInv, Types
    <2>2. \A d \in alive \ registry : d # cur[t] =>
              \E s \in Threads : /\ cur[s] = d /\ s # t
                                 /\ pc[s] \in {"creating", "registering", "unlinked"}
      BY Zenon DEF IInv, OwnerInv, NoLeak
    <2>3. NoLeak'
      BY <1>1, <2>1, <2>2 DEF NoLeak
    <2>4. \A s \in Threads : pc[s] \in {"deleting", "unregistering", "unlinked"} => cur[s] \in Conns
      BY CurParts, Zenon
    <2> QED BY <1>1, <2>3, <2>4 DEF IInv, OwnerInv, New
  <1>6. MutexInv'
    <2>1. OneWaits'
      BY AnsweredFrame, Zenon
    <2> QED BY <2>1, Zenon DEF IInv, MutexInv, HolderIsAnswered
  <1>7. StaleInv'
    BY Zenon DEF IInv, StaleInv, EpochInv
  <1>8. LinkInv'
    <2>1. \A k \in Keys : input'[k] # Null =>
              /\ input'[k] = input[k] /\ input[k] # cur[t]
              /\ input[k] \in registry \cap receivers \cap old.conns /\ KeyIn(old, input[k]) = k
      BY <1>2 DEF IInv, LinkInv
    <2>2. \A c \in registry \cap receivers \cap old.conns :
              c # cur[t] => input'[KeyIn(old, c)] = c
      <3>1. \A c \in registry \cap receivers \cap old.conns : input[KeyIn(old, c)] = c
        BY Zenon DEF IInv, LinkInv
      <3> QED BY <1>2, <3>1, OldKeys, Zenon
    <2>3. KeysOf(old)' = KeysOf(old) /\ \A c : KeyIn(old, c)' = KeyIn(old, c)
      BY Zenon DEF KeysOf, KeyIn
    <2>4. \A c \in registry' : link'[c] = IF c \in old.conns THEN KeyIn(old, c) ELSE Null
      BY <1>1, Zenon DEF IInv, LinkInv, TypeInv, Types
    <2>5. \A c \in Conns \ registry' : link'[c] = Null
      BY <1>1, Zenon DEF IInv, LinkInv
    <2>6. groups' = KeysOf(old)'
      BY <2>3, Zenon DEF IInv, LinkInv
    <2>7. \A k \in Keys : input'[k] # Null =>
              /\ input'[k] \in registry' \cap receivers \cap old.conns
              /\ KeyIn(old, input[k])' = k
      BY <2>1, <2>3, Zenon DEF KeyIn
    <2> QED BY <2>2, <2>3, <2>4, <2>5, <2>6, <2>7, Zenon DEF LinkInv
  <1> QED BY <1>3, <1>4, <1>5, <1>6, <1>7, <1>8, QueueFrame, KnownFrame, KeptFrame,
             EpochFrame, Zenon
          DEF IInv

\* The object is deleted.
LEMMA DeleteObjectStep ==
  ASSUME IInv, NEW t \in Threads, DeleteObject(t)
  PROVE  IInv'
  <1> DEFINE w == IF t = Api THEN "shutdown" ELSE "done"
  <1>   /\ pc[t] = "unlinked" /\ cur[t] \in alive /\ alive' = alive \ {cur[t]}
        /\ Goto(t, w) /\ cur' = IF t = Api THEN [cur EXCEPT ![t] = Null] ELSE cur
        /\ UNCHANGED <<mx, registry_sdk, registry, link, input, groups, cfg, old, ids, proxy_id,
                       rpc, epoch, queue, linked, snap, command, timeouts, receivers>>
    BY Zenon DEF DeleteObject, groupvars, agentvars
  <1>   \A s \in Threads : pc'[s] = IF s = t THEN w ELSE pc[s]
    BY GotoStep, Zenon
  <1>   w \in {"shutdown", "done"} /\ (w = "shutdown" <=> t = Api)
    BY Zenon
  <1>   /\ Api \in Threads /\ Conns \subseteq Threads /\ t # Null /\ Null \notin Threads
        /\ Api \notin Conns
    BY LocalManagerAssumption, Zenon DEF Threads
  <1>   cur[t] \in Conns /\ ~New(cur[t]) /\ pc[cur[t]] # "registering"
    BY CurParts, Zenon DEF IInv, OwnerInv
  <1>   \A s \in Threads : s # t => cur'[s] = cur[s]
    BY Zenon DEF IInv, TypeInv, Types
  <1>   t # Api => cur' = cur
    BY Zenon
  <1>1. mx # t
    BY Zenon DEF IInv, MutexInv
  <1> HIDE DEF w
  <1>2. Flow
    BY <1>1, Zenon DEF Flow, New, Present, Leaving, IInv, TypeInv, Types
  <1>3. TypeInv'
    <2>1. cur' \in [Threads -> Conns \cup {Null}]
      BY Zenon DEF IInv, TypeInv, Types
    <2>2. Types'
      BY <2>1, Zenon DEF IInv, TypeInv, Types, Goto
    <2>3. \A c \in Conns : pc'[c] \in ClientPcs /\ cur'[c] = c
      BY DEF IInv, TypeInv, ClientPcs
    <2>4. pc'[Api] \in ApiPcs
      BY Zenon DEF IInv, TypeInv, ApiPcs
    <2> QED BY <2>2, <2>3, <2>4, Zenon DEF IInv, TypeInv
  <1>4. OwnerInv'
    <2>1. \A d \in alive \ registry : d # cur[t] =>
              \E s \in Threads : /\ cur[s] = d /\ s # t
                                 /\ pc[s] \in {"creating", "registering", "unlinked"}
      BY DEF IInv, OwnerInv, NoLeak
    <2>2. NoLeak'
      BY <2>1 DEF IInv, OwnerInv, NoLeak
    <2>3. \A s \in Threads : pc[s] \in {"deleting", "unregistering", "unlinked"} => cur[s] \in Conns
      BY CurParts, Zenon
    <2>4. registry_sdk[cur[t]] = "none"
      BY DEF IInv, OwnerInv, NoLeak, New, TypeInv, Types
    <2> QED BY <2>2, <2>3, <2>4 DEF IInv, OwnerInv, New
  <1>5. MutexInv'
    BY MutexFrame, Zenon
  <1>6. StaleInv'
    BY Zenon DEF IInv, StaleInv, EpochInv
  <1> QED BY <1>2, <1>3, <1>4, <1>5, <1>6, QueueFrame, KnownFrame, KeptFrame, EpochFrame,
             LinkFrame, Zenon
          DEF IInv

\* A thread goes on with a deleted connection, and is left out from there.
LEMMA UseDeletedStep ==
  ASSUME IInv, NEW t \in Threads, UseDeleted(t)
  PROVE  IInv'
  <1>   /\ cur[t] \notin alive
        /\ pc[t] \in {"activating", "deleting", "unregistering", "unlinked"}
        /\ Goto(t, "crashed")
        /\ UNCHANGED <<cur, mx, alive, registry_sdk, registry, link, input, groups, cfg, old, ids,
                       proxy_id, rpc, epoch, queue, linked, snap, command, timeouts, receivers>>
    BY Zenon DEF UseDeleted, sdkvars, groupvars, agentvars
  <1>   \A s \in Threads : pc'[s] = IF s = t THEN "crashed" ELSE pc[s]
    BY GotoStep, Zenon
  <1>   /\ Api \in Threads /\ Conns \subseteq Threads /\ t # Null /\ Null \notin Threads
        /\ Api \notin Conns
    BY LocalManagerAssumption, Zenon DEF Threads
  <1>1. \A c \in Conns : Present(c) => c \in alive
    BY Zenon DEF IInv, OwnerInv, NoLeak, Present
  <1>2. Flow
    <2>1. mx # Null => mx \in Threads
      BY Zenon DEF IInv, TypeInv, Types
    <2>2. \A c \in Conns : (New(c)' => New(c)) /\ (Present(c)' => Present(c))
      BY Zenon DEF New, Present
    <2>3. \A c \in Conns : Leaving(c) /\ Present(c)' => Leaving(c)'
      BY <1>1, <2>1, <2>2, Zenon DEF Leaving
    <2> QED BY <2>2, <2>3, Zenon DEF Flow
  <1>3. TypeInv'
    <2>1. Types'
      BY Zenon DEF IInv, TypeInv, Types, Goto
    <2> QED BY <2>1, Zenon DEF IInv, TypeInv, ClientPcs, ApiPcs
  <1>4. OwnerInv'
    BY OwnerFrame, Zenon
  <1>5. MutexInv'
    <2>1. OneWaits'
      BY Zenon DEF IInv, MutexInv, OneWaits
    <2> QED BY <2>1, Zenon DEF IInv, MutexInv, HolderIsAnswered, TypeInv, Types
  <1>6. StaleInv'
    BY Zenon DEF IInv, StaleInv, EpochInv
  <1>7. EpochInv'
    BY Zenon DEF IInv, EpochInv, TypeInv, ApiPcs
  <1> QED BY <1>2, <1>3, <1>4, <1>5, <1>6, <1>7, QueueFrame, KnownFrame, KeptFrame,
             LinkFrame, Zenon
          DEF IInv

-----------------------------------------------------------------------------
(* The thread of the proxy API client.                                     *)

\* The steps of this thread, but for those of delete_connection_sdk().
LEMMA ApiStep ==
  ASSUME IInv, NEW w \in ApiPcs \ {"unregistering", "unlinked", "crashed"},
         pc[Api] \in {"register", "closing", "shutdown", "connect", "stream", "applying"},
         Goto(Api, w) \/ (pc' = pc /\ w = pc[Api]),
         cur' = cur \/ \E c \in registry : cur' = [cur EXCEPT ![Api] = c],
         w = "deleting" => cur'[Api] \in registry,
         UNCHANGED <<mx, alive, registry_sdk, registry, rpc, queue>>, Types'
  PROVE  /\ Flow /\ TypeInv' /\ OwnerInv' /\ MutexInv' /\ QueueInv'
         /\ pc'[Api] = w /\ \A c \in Conns : pc'[c] = pc[c]
  <1>   /\ Api \in Threads /\ Conns \subseteq Threads /\ Null \notin Threads /\ Api \notin Conns
        /\ \A t \in Threads : t \in Conns \/ t = Api
    BY LocalManagerAssumption, Zenon DEF Threads
  <1>1. \A s \in Threads : pc'[s] = IF s = Api THEN w ELSE pc[s]
    BY GotoStep, Zenon
  <1>2. \A c \in Conns : cur'[c] = cur[c]
    BY DEF IInv, TypeInv, Types
  <1>3. mx # Api /\ (mx # Null => mx \in Conns)
    BY DEF IInv, MutexInv, TypeInv, Types
  <1>4. Flow
    BY <1>1, <1>2, <1>3, Zenon DEF Flow, New, Present, Leaving
  <1>5. TypeInv'
    <2>1. registry \subseteq Conns
      BY Zenon DEF IInv, TypeInv, Types
    <2> QED BY <1>1, <1>2, <2>1, Zenon DEF IInv, TypeInv, ClientPcs, ApiPcs
  <1>6. OwnerInv'
    <2>1. \A c \in registry : c \in Conns /\ ~New(c) /\ pc[c] # "registering"
      BY Zenon DEF IInv, OwnerInv, NoLeak, New
    <2>2. NoLeak'
      BY <1>1, <1>2 DEF IInv, OwnerInv, NoLeak
    <2>3. \A t \in Threads : pc'[t] \in {"deleting", "unregistering", "unlinked"} =>
              /\ cur'[t] \in Conns /\ ~New(cur'[t]) /\ pc[cur'[t]] # "registering"
      BY <1>1, <1>2, <2>1, CurParts, Zenon DEF IInv, OwnerInv
    <2>4. \A t \in Threads : pc'[t] = "unlinked" => cur'[t] \notin registry
      BY <1>1, <1>2, Zenon DEF IInv, OwnerInv
    <2> QED BY <1>1, <2>2, <2>3, <2>4, Zenon DEF IInv, OwnerInv, New
  <1>7. MutexInv'
    <2>1. \A t \in Threads :
              \/ pc'[t] = pc[t] /\ cur'[t] = cur[t]
              \/ /\ pc[t] \notin {"registering", "unregistering", "crashed"}
                 /\ pc'[t] \notin {"registering", "unregistering"}
      BY <1>1, <1>2, Zenon DEF ApiPcs
    <2> QED BY <2>1, MutexFrame, Zenon
  <1> QED BY <1>1, <1>4, <1>5, <1>6, <1>7, QueueFrame, Zenon

\* Registration with the agent, and LocalManager::shutdown().
LEMMA RegisterMediaProxyStep ==
  ASSUME IInv, RegisterMediaProxy
  PROVE  IInv'
  <1>   /\ pc[Api] = "register" /\ Goto(Api, "closing") /\ proxy_id' = epoch
        /\ UNCHANGED <<cur, mx, alive, registry_sdk, registry, link, input, groups, cfg, old, ids,
                       rpc, epoch, queue, linked, snap, command, timeouts, receivers>>
    BY Zenon DEF RegisterMediaProxy, sdkvars, groupvars, agentvars
  <1>1. Types'
    BY Zenon DEF IInv, TypeInv, Types, Goto
  <1>2. /\ Flow /\ TypeInv' /\ OwnerInv' /\ MutexInv' /\ QueueInv' /\ pc'[Api] = "closing"
    BY <1>1, ApiStep DEF ApiPcs
  <1>3. EpochInv'
    BY <1>2, EpochParts, Zenon DEF IInv, EpochInv
  <1>4. StaleInv'
    BY <1>2, Zenon DEF StaleInv
  <1> QED BY <1>2, <1>3, <1>4, KnownFrame, KeptFrame, LinkFrame, Zenon DEF IInv

\* LocalManager::shutdown(): the ids it still holds cover the connections of
\* the last config.
LEMMA ShutdownStep ==
  ASSUME IInv, ShutdownBegin \/ (\E c \in Conns : ShutdownLookup(c)) \/ ShutdownEnd
  PROVE  IInv'
  <1>1. PICK w \in {"shutdown", "deleting", "connect"} :
            /\ pc[Api] \in {"closing", "shutdown"} /\ ids' \subseteq Conns
            /\ Goto(Api, w) \/ (pc' = pc /\ w = pc[Api])
            /\ w # "deleting" => cur' = cur
            /\ w = "deleting" => \E c \in registry : cur' = [cur EXCEPT ![Api] = c]
            /\ w = "shutdown" => registry \cap cfg.conns \subseteq ids'
            /\ w = "deleting" => registry \cap cfg.conns \subseteq ids' \cup {cur'[Api]}
            /\ w = "connect" => registry \cap cfg.conns = {}
    <2>1. registry = {c \in Conns : registry_sdk[c] = "conn"} /\ ids \subseteq Conns
      BY Zenon DEF IInv, OwnerInv, NoLeak, TypeInv, Types
    <2>2. CASE ShutdownBegin
      BY <2>1, <2>2, Zenon DEF ShutdownBegin
    <2>3. ASSUME NEW c \in Conns, ShutdownLookup(c), registry_sdk[c] = "conn"
          PROVE  /\ pc[Api] = "shutdown" /\ ids' \subseteq Conns
                 /\ Goto(Api, "deleting") /\ c \in registry /\ cur' = [cur EXCEPT ![Api] = c]
                 /\ registry \cap cfg.conns \subseteq ids' \cup {cur'[Api]}
      <3>1. Api \in DOMAIN cur
        BY Zenon DEF IInv, TypeInv, Types, Threads
      <3> QED BY <2>1, <2>3, <3>1, Zenon DEF ShutdownLookup, IInv, StaleInv
    <2>4. ASSUME NEW c \in Conns, ShutdownLookup(c), registry_sdk[c] # "conn"
          PROVE  /\ pc[Api] = "shutdown" /\ ids' \subseteq Conns /\ cur' = cur /\ pc' = pc
                 /\ registry \cap cfg.conns \subseteq ids'
      BY <2>1, <2>4 DEF ShutdownLookup, IInv, StaleInv
    <2>5. CASE ShutdownEnd
      BY <2>1, <2>5, Zenon DEF ShutdownEnd, IInv, StaleInv
    <2> QED BY <2>2, <2>3, <2>4, <2>5, Zenon
  <1>   UNCHANGED <<mx, alive, registry_sdk, registry, link, input, groups, cfg, old, proxy_id,
                    rpc, epoch, queue, linked, snap, command, timeouts, receivers>>
    BY Zenon DEF ShutdownBegin, ShutdownLookup, ShutdownEnd, sdkvars, groupvars, agentvars
  <1>2. registry \subseteq Conns /\ Api \in DOMAIN cur
    BY Zenon DEF IInv, TypeInv, Types, Threads
  <1>3. cur' \in [Threads -> Conns \cup {Null}] /\ (w = "deleting" => cur'[Api] \in registry)
    BY <1>1, <1>2, Zenon DEF IInv, TypeInv, Types
  <1>4. Types'
    BY <1>1, <1>3 DEF IInv, TypeInv, Types, Goto
  <1>5. /\ Flow /\ TypeInv' /\ OwnerInv' /\ MutexInv' /\ QueueInv' /\ pc'[Api] = w
    BY <1>1, <1>3, <1>4, ApiStep, Zenon DEF ApiPcs
  <1>6. StaleInv'
    BY <1>1, <1>5, Zenon DEF StaleInv
  <1>7. EpochInv'
    BY <1>1, <1>5, EpochFrame, Zenon
  <1> QED BY <1>5, <1>6, <1>7, KnownFrame, KeptFrame, LinkFrame, Zenon DEF IInv

\* The stream of commands opens and breaks.
LEMMA StartCommandQueueStep ==
  ASSUME IInv, StartCommandQueue
  PROVE  IInv'
  <1>   /\ pc[Api] = "connect"
        /\ command' = IF command # Null /\ command.proxy # epoch THEN Null ELSE command
        /\ UNCHANGED <<cur, mx, alive, registry_sdk, registry, link, input, groups, cfg, old, ids,
                       rpc, epoch, queue, linked, snap, timeouts, receivers>>
    BY Zenon DEF StartCommandQueue, sdkvars, groupvars
  <1>1. command' \in {command, Null} /\ (command' # Null => command.proxy = epoch)
    BY Zenon
  <1>2. PICK w \in {"stream", "register"} :
            /\ Goto(Api, w)
            /\ w = "stream" => proxy_id = epoch /\ proxy_id' = proxy_id
            /\ w = "register" => proxy_id # epoch /\ proxy_id' = 0
    BY Zenon DEF StartCommandQueue
  <1>3. Types'
    BY <1>1, <1>2, Zenon DEF IInv, TypeInv, Types, Goto
  <1>4. /\ Flow /\ TypeInv' /\ OwnerInv' /\ MutexInv' /\ QueueInv' /\ pc'[Api] = w
    BY <1>2, <1>3, ApiStep, Zenon DEF ApiPcs
  <1>5. EpochInv'
    BY <1>1, <1>2, <1>4, EpochParts, Zenon DEF IInv, EpochInv
  <1>6. StaleInv'
    BY <1>2, <1>4, Zenon DEF IInv, StaleInv
  <1> QED BY <1>1, <1>4, <1>5, <1>6, KnownFrame, KeptFrame, LinkFrame, Zenon DEF IInv

\* The stream of commands breaks.
LEMMA StreamBreaksStep ==
  ASSUME IInv, StreamBreaks
  PROVE  IInv'
  <1>   /\ pc[Api] = "stream" /\ Goto(Api, "connect") /\ command' \in {command, Null}
        /\ UNCHANGED <<cur, mx, alive, registry_sdk, registry, link, input, groups, cfg, old, ids,
                       proxy_id, rpc, epoch, queue, linked, snap, timeouts, receivers>>
    BY Zenon DEF StreamBreaks, sdkvars, groupvars
  <1>1. Types'
    BY Zenon DEF IInv, TypeInv, Types, Goto
  <1>2. /\ Flow /\ TypeInv' /\ OwnerInv' /\ MutexInv' /\ QueueInv' /\ pc'[Api] = "connect"
    BY <1>1, ApiStep DEF ApiPcs
  <1>3. EpochInv'
    BY <1>2, Zenon DEF IInv, EpochInv
  <1>4. StaleInv'
    BY <1>2, Zenon DEF IInv, StaleInv
  <1> QED BY <1>2, <1>3, <1>4, KnownFrame, KeptFrame, LinkFrame, Zenon DEF IInv

-----------------------------------------------------------------------------
(* The configs of the agent.                                               *)

\* What a config that is not empty tells by its groups.
LEMMA SameKeys ==
  ASSUME NEW f \in Configs, NEW g \in Configs, NEW c \in f.conns, KeyIn(f, c) \in KeysOf(g)
  PROVE  f.proxy = g.proxy /\ \A d : KeyIn(f, d) = KeyIn(g, d)
  BY Zenon DEF KeysOf, KeyIn

\* apply_config(): the new config keeps the connections that are not leaving.
LEMMA ApplyConfigStep ==
  ASSUME IInv, ApplyConfig
  PROVE  IInv'
  <1> DEFINE Same == KeysOf(command) = KeysOf(cfg) /\ command.conns = cfg.conns
  <1>   /\ pc[Api] = "stream" /\ command # Null /\ command' = Null /\ cfg' = command
        /\ UNCHANGED <<cur, mx, alive, registry_sdk, registry, link, input, groups, ids,
                       proxy_id, rpc, epoch, queue, linked, snap, timeouts, receivers>>
    BY Zenon DEF ApplyConfig, sdkvars
  <1>1. Same => old' = command /\ pc' = pc
    BY Zenon DEF ApplyConfig
  <1>2. ~Same => old' = cfg /\ Goto(Api, "applying")
    BY Zenon DEF ApplyConfig
  <1>3. /\ cfg \in Configs /\ old = cfg /\ command \in Configs
        /\ snap = Null /\ command.proxy = proxy_id
    BY Zenon DEF IInv, TypeInv, Types, EpochInv
  <1>4. Types'
    <2>1. pc' \in [Threads -> {"start", "creating", "registering",
                           "up", "activating", "deleting", "unregistering",
                           "unlinked", "done", "register", "closing",
                           "shutdown", "connect", "stream", "applying",
                           "crashed"}] /\ old' \in Configs
      BY <1>1, <1>2, <1>3, Zenon DEF IInv, TypeInv, Types, Goto
    <2> QED BY <1>3, <2>1, Zenon DEF IInv, TypeInv, Types
  <1>5. PICK w \in {"stream", "applying"} :
            /\ Same => w = "stream"
            /\ ~Same => w = "applying"
            /\ Goto(Api, w) \/ (pc' = pc /\ w = pc[Api])
    BY <1>1, <1>2, Zenon
  <1>6. /\ Flow /\ TypeInv' /\ OwnerInv' /\ MutexInv' /\ QueueInv'
        /\ pc'[Api] = w /\ \A c \in Conns : pc'[c] = pc[c]
    BY <1>4, <1>5, ApiStep, Zenon DEF ApiPcs
  <1>7. /\ old' \in {cfg, command} /\ (Same => old' = command)
        /\ (~Same => old' = cfg) /\ old'.conns \subseteq Conns /\ old'.conns = cfg.conns
    BY <1>1, <1>2, <1>3, Zenon DEF Configs
  <1>8. /\ cfg.conns \subseteq Conns /\ command.conns \subseteq Conns
        /\ registry \subseteq Conns /\ linked \subseteq Conns
    BY <1>3, Zenon DEF Configs, IInv, TypeInv, Types
  <1> HIDE DEF Same
  <1>9. KnownInv'
    BY <1>3, <1>6, <1>7, <1>8 DEF IInv, KnownInv, Flow, OneReceiver
  <1>10. EpochInv'
    BY <1>3, <1>5, <1>6, <1>7, Zenon DEF IInv, EpochInv
  <1>11. StaleInv'
    BY <1>3, <1>5, <1>6, <1>7, Zenon DEF IInv, StaleInv
  <1>12. KeptInv'
    <2>1. command.proxy = epoch =>
              \A c \in command.conns : Present(c) => c \in linked \/ Leaving(c)
      BY Zenon DEF IInv, KeptInv
    <2>2. \A c \in cfg.conns \cap registry : c \in command.conns \/ Leaving(c)
      <3>1. CASE command.proxy = cfg.proxy
        BY <3>1, Zenon DEF IInv, KeptInv, Present
      <3>2. CASE command.proxy # cfg.proxy
        BY <1>3, <3>2, Zenon DEF IInv, StaleInv
      <3> QED BY <3>1, <3>2, Zenon
    <2>3. \A c \in Conns : /\ Present(c)' => Present(c)
                           /\ Leaving(c) => Leaving(c)' \/ ~Present(c)'
      BY <1>6, Zenon DEF Flow, Present
    <2>4. (cfg.proxy = epoch =>
           \A c \in cfg.conns : Present(c) =>
               (c \in linked /\ (snap # Null => c \in snap)) \/ Leaving(c))'
      BY <1>3, <1>8, <2>1, <2>3, Zenon
    <2>5. (\A c \in old.conns \cap registry : c \in cfg.conns \/ Leaving(c))'
      BY <1>7, <1>8, <2>2, <2>3, Zenon DEF Present
    <2> QED BY <1>3, <2>4, <2>5, Zenon DEF KeptInv
  <1>13. LinkInv'
    <2>1. CASE Same
      <3>1. KeysOf(command) = KeysOf(cfg) /\ old' = command /\ command.conns = cfg.conns
        BY <2>1, <1>7, Zenon DEF Same
      <3>2. \A c \in cfg.conns : KeyIn(command, c) = KeyIn(cfg, c)
        <4> TAKE c \in cfg.conns
        <4>1. KeyIn(command, c) \in KeysOf(command)
          BY <3>1, Zenon DEF KeysOf
        <4> QED BY <1>3, <3>1, <4>1, SameKeys, Zenon
      <3>3. /\ KeysOf(old)' = KeysOf(cfg) /\ old'.conns = cfg.conns
            /\ \A c \in cfg.conns : KeyIn(old, c)' = KeyIn(cfg, c)
        BY <3>1, <3>2, Zenon DEF KeysOf, KeyIn
      <3> QED BY <1>3, <3>3, Zenon DEF IInv, LinkInv, Keys
    <2>2. CASE ~Same
      BY <1>3, <1>7, <2>2, LinkFrame, Zenon
    <2> QED BY <2>1, <2>2, Zenon
  <1> QED BY <1>6, <1>9, <1>10, <1>11, <1>12, <1>13, Zenon DEF IInv

\* reconcile_config() has a connection linked as the new config says.
LEMMA ReconcileLinks ==
  ASSUME IInv, ReconcileConfig
  PROVE  /\ registry \cap old.conns \subseteq cfg.conns
         /\ registry \cap old.conns # {} => old.proxy = cfg.proxy
         /\ DeletedConns = {}
         /\ \A c \in registry : NewLink(c) = IF c \in cfg.conns THEN KeyIn(cfg, c) ELSE Null
         /\ \A c \in Conns \ registry : NewLink(c) = Null
  <1>1. pc[Api] = "applying" /\ mx = Null /\ cfg.proxy = proxy_id
    BY Zenon DEF ReconcileConfig, MayReconcile, Reconcilable, IInv, EpochInv
  <1>2. cfg \in Configs /\ old \in Configs /\ registry \subseteq Conns
    BY Zenon DEF IInv, TypeInv, Types
  <1>3. registry \cap old.conns \subseteq cfg.conns
    BY <1>1, Zenon DEF IInv, KeptInv, Leaving
  <1>4. registry \cap old.conns # {} => old.proxy = cfg.proxy
    BY <1>1, Zenon DEF IInv, StaleInv
  <1>5. DeletedConns = {} /\ AddedConns \subseteq registry
    BY <1>3, Zenon DEF DeletedConns, AddedConns
  <1>6. \A c \in Conns \ registry : link[c] = Null
    BY Zenon DEF IInv, LinkInv
  <1>7. \A c \in Conns \ registry : NewLink(c) = Null
    BY <1>5, <1>6, Zenon DEF NewLink
  <1>8. ASSUME NEW c \in registry, c \notin cfg.conns
        PROVE  NewLink(c) = Null
    <2>1. link[c] = Null
      BY <1>3, <1>8, Zenon DEF IInv, LinkInv
    <2> QED BY <1>5, <1>8, <2>1, Zenon DEF NewLink, AddedConns
  <1>9. ASSUME NEW c \in registry, c \in cfg.conns
        PROVE  NewLink(c) = KeyIn(cfg, c)
    <2>1. CASE c \in AddedConns
      BY <2>1, Zenon DEF NewLink
    <2>2. CASE c \notin AddedConns
      <3>1. c \in old.conns /\ KeyIn(cfg, c) = KeyIn(old, c)
        BY <1>4, <1>9, <2>2, Zenon DEF AddedConns, KeyIn
      <3>2. link[c] = KeyIn(cfg, c)
        BY <3>1, Zenon DEF IInv, LinkInv
      <3>3. \A k \in DeletedGroups : input[k] # c
        <4>1. SUFFICES ASSUME NEW k \in DeletedGroups, input[k] = c
                       PROVE  FALSE
          BY Zenon
        <4>2. k \in Keys
          BY Zenon DEF DeletedGroups, IInv, LinkInv, TypeInv, Types
        <4>3. c # Null
          BY <1>2, LocalManagerAssumption, Zenon DEF Threads
        <4>4. KeyIn(cfg, c) = k
          BY <3>1, <4>1, <4>2, <4>3, Zenon DEF IInv, LinkInv
        <4>5. KeyIn(cfg, c) \in KeysOf(cfg)
          BY <1>9, Zenon DEF KeysOf
        <4> QED BY <4>1, <4>4, <4>5, Zenon DEF DeletedGroups
      <3> QED BY <1>5, <2>2, <3>2, <3>3, Zenon DEF NewLink
    <2> QED BY <2>1, <2>2, Zenon
  <1> QED BY <1>3, <1>4, <1>5, <1>7, <1>8, <1>9, Zenon

\* And it has every group fed by the one receiver of the new config.
LEMMA ReconcileInputs ==
  ASSUME IInv, ReconcileConfig
  PROVE  /\ \A k \in Keys : NewInput(k) # Null =>
                /\ NewInput(k) \in registry \cap receivers \cap cfg.conns
                /\ KeyIn(cfg, NewInput(k)) = k
         /\ \A c \in registry \cap receivers \cap cfg.conns : NewInput(KeyIn(cfg, c)) = c
  <1> DEFINE Added(k) == {c \in AddedConns \cap receivers : KeyIn(cfg, c) = k}
  <1>1. cfg \in Configs /\ old \in Configs /\ registry \subseteq Conns /\ Null \notin Conns
    BY LocalManagerAssumption, Zenon DEF IInv, TypeInv, Types, Threads
  <1>2. \A k : NewInput(k) = IF Added(k) # {} THEN CHOOSE c \in Added(k) : TRUE
                             ELSE IF k \in DeletedGroups \/ input[k] \in DeletedConns THEN Null
                             ELSE input[k]
    BY Zenon DEF NewInput
  <1>3. \A k : \A c \in Added(k) :
            c \in registry \cap receivers \cap cfg.conns /\ KeyIn(cfg, c) = k
    BY Zenon DEF AddedConns
  <1>4. \A k : Added(k) # {} => (CHOOSE c \in Added(k) : TRUE) \in Added(k)
    BY Zenon
  <1>5. \A k : \A c, d \in registry \cap receivers \cap cfg.conns :
            KeyIn(cfg, c) = KeyIn(cfg, d) => c = d
    BY Zenon DEF IInv, KnownInv, OneReceiver, KeyIn
  <1>6. DeletedConns = {}
    BY ReconcileLinks, Zenon
  <1>7. \A c \in registry \cap old.conns : c \in cfg.conns /\ KeyIn(old, c) = KeyIn(cfg, c)
    BY ReconcileLinks, Zenon DEF KeyIn
  <1> HIDE DEF Added
  <1>8. ASSUME NEW k \in Keys, NewInput(k) # Null
        PROVE  /\ NewInput(k) \in registry \cap receivers \cap cfg.conns
               /\ KeyIn(cfg, NewInput(k)) = k
    <2>1. CASE Added(k) # {}
      BY <1>2, <1>3, <1>4, <2>1, Zenon
    <2>2. CASE Added(k) = {}
      <3>1. NewInput(k) = input[k]
        BY <1>2, <1>8, <2>2, Zenon
      <3>2. input[k] \in registry \cap receivers \cap old.conns /\ KeyIn(old, input[k]) = k
        BY <1>8, <3>1, Zenon DEF IInv, LinkInv
      <3> QED BY <1>7, <3>1, <3>2, Zenon
    <2> QED BY <2>1, <2>2, Zenon
  <1>9. ASSUME NEW c \in registry \cap receivers \cap cfg.conns
        PROVE  NewInput(KeyIn(cfg, c)) = c
    <2> DEFINE k == KeyIn(cfg, c)
    <2>1. CASE Added(k) # {}
      BY <1>2, <1>3, <1>4, <1>5, <2>1, Zenon
    <2>2. CASE Added(k) = {}
      <3>1. c \notin AddedConns
        BY <2>2, Zenon DEF Added
      <3>2. c \in old.conns
        BY <3>1, Zenon DEF AddedConns
      <3>3. input[k] = c
        BY <1>7, <3>2, Zenon DEF IInv, LinkInv
      <3>4. k \notin DeletedGroups
        BY Zenon DEF DeletedGroups, KeysOf
      <3> QED BY <1>2, <1>6, <2>2, <3>3, <3>4, Zenon
    <2> QED BY <2>1, <2>2, Zenon
  <1> QED BY <1>8, <1>9, Zenon

\* The groups of a config of a registered proxy.
LEMMA KeysParts ==
  ASSUME NEW f \in Configs, f.proxy \in Proxies
  PROVE  KeysOf(f) \subseteq Keys /\ \A c \in Conns : KeyIn(f, c) \in Keys
  BY LocalManagerAssumption DEF Configs, KeyIn, KeysOf, Keys

\* reconcile_config(), with the two lemmas above.
LEMMA ReconcileConfigStep ==
  ASSUME IInv, ReconcileConfig
  PROVE  IInv'
  <1>   /\ pc[Api] = "applying" /\ mx = Null /\ Goto(Api, "stream") /\ old' = cfg
        /\ link' = [c \in Conns |-> NewLink(c)] /\ input' = [k \in Keys |-> NewInput(k)]
        /\ UNCHANGED <<cur, mx, alive, registry_sdk, registry, cfg, ids, proxy_id, rpc,
                       epoch, queue, linked, snap, command, timeouts, receivers>>
    BY Zenon DEF ReconcileConfig, MayReconcile, Reconcilable, sdkvars, agentvars
  <1>1. /\ cfg \in Configs /\ old \in Configs /\ registry \subseteq Conns
        /\ cfg.conns \subseteq Conns
    BY Zenon DEF IInv, TypeInv, Types, Configs
  <1>2. cfg.proxy = proxy_id /\ cfg.proxy \in Proxies
    BY Zenon DEF IInv, TypeInv, Types, EpochInv
  <1>3. /\ \A c \in Conns : KeyIn(cfg, c) \in Keys
        /\ KeysOf(cfg) \subseteq Keys
    BY <1>1, <1>2, KeysParts, Zenon
  <1>4. groups' = KeysOf(cfg)
    BY Zenon DEF ReconcileConfig, DeletedGroups, IInv, LinkInv
  <1>5. link' \in [Conns -> Keys \cup {Null}]
    BY <1>3, ReconcileLinks, Zenon
  <1>6. input' \in [Keys -> receivers \cup {Null}]
    BY ReconcileInputs, Zenon
  <1>7. Types'
    BY <1>1, <1>3, <1>4, <1>5, <1>6, Zenon DEF IInv, TypeInv, Types, Goto
  <1>8. /\ Flow /\ TypeInv' /\ OwnerInv' /\ MutexInv' /\ QueueInv'
        /\ pc'[Api] = "stream" /\ \A c \in Conns : pc'[c] = pc[c]
    <2>1. "stream" \in ApiPcs \ {"unregistering", "unlinked", "crashed"} /\ "stream" # "deleting"
      BY Zenon DEF ApiPcs
    <2> QED BY <1>7, <2>1, ApiStep, Zenon
  <1>9. KnownInv'
    <2>1. \A c \in Conns : pc[c] # "registering"
      BY LocalManagerAssumption, Zenon DEF IInv, MutexInv, Threads
    <2> QED BY <1>1, <1>8, <2>1 DEF IInv, KnownInv, OneReceiver, New, TypeInv, Types, Configs
  <1>10. EpochInv'
    BY <1>2, <1>8, Zenon DEF IInv, EpochInv
  <1>11. StaleInv'
    BY <1>2, <1>8, Zenon DEF StaleInv
  <1>12. KeptInv'
    <2>1. \A c \in Conns : (Present(c)' <=> Present(c)) /\ ~Leaving(c)
      BY <1>8, Zenon DEF Present, Leaving
    <2>2. /\ KeptInv
          /\ snap # Null => snap \subseteq Conns
          /\ command # Null => command.conns \subseteq Conns
      BY ConfigParts, Zenon DEF IInv, TypeInv, Types
    <2> QED BY <1>1, <2>1, <2>2, Zenon DEF KeptInv
  <1>13. LinkInv'
    <2>1. KeysOf(old)' = KeysOf(cfg) /\ \A c : KeyIn(old, c)' = KeyIn(cfg, c)
      BY Zenon DEF KeysOf, KeyIn
    <2>2. \A c \in Conns : link'[c] = NewLink(c)
      BY Zenon
    <2>3. \A k \in Keys : input'[k] = NewInput(k)
      BY Zenon
    <2>4. (\A c \in registry : link[c] = IF c \in old.conns THEN KeyIn(old, c) ELSE Null)'
      BY <1>1, <2>1, <2>2, ReconcileLinks, Zenon
    <2>5. (\A c \in Conns \ registry : link[c] = Null)'
      BY <2>2, ReconcileLinks, Zenon
    <2>6. \A k \in Keys : input'[k] # Null =>
             /\ input'[k] \in registry \cap receivers \cap cfg.conns
             /\ KeyIn(cfg, input'[k]) = k
      BY <2>3, ReconcileInputs, Zenon
    <2>7. \A c \in registry \cap receivers \cap cfg.conns : input'[KeyIn(cfg, c)] = c
      BY <1>1, <1>3, <2>3, ReconcileInputs, Zenon
    <2>8. \A k : (KeyIn(old, input[k]))' = KeyIn(cfg, input'[k])
      BY Zenon DEF KeyIn
    <2> QED BY <1>4, <2>1, <2>4, <2>5, <2>6, <2>7, <2>8, Zenon DEF LinkInv, Keys, Proxies
  <1> QED BY <1>8, <1>9, <1>10, <1>11, <1>12, <1>13, Zenon DEF IInv

-----------------------------------------------------------------------------
(* The steps of the agent.                                                 *)

\* They change nothing of the proxy but the answer to its RPC.
LEMMA AgentFrame ==
  ASSUME IInv, Types',
         UNCHANGED <<pc, cur, mx, alive, registry_sdk, registry, link, input, groups, cfg, old,
                     ids, proxy_id, receivers>>
  PROVE  /\ TypeInv' /\ OwnerInv' /\ StaleInv' /\ LinkInv'
         /\ \A c \in Conns : /\ New(c)' <=> New(c)
                             /\ Present(c)' <=> Present(c)
                             /\ Leaving(c)' <=> Leaving(c)
  <1>1. TypeInv'
    BY Zenon DEF IInv, TypeInv
  <1>2. OwnerInv'
    BY OwnerFrame, Zenon
  <1>3. StaleInv'
    BY Zenon DEF IInv, StaleInv
  <1>4. LinkInv'
    BY LinkFrame, Zenon
  <1> QED BY <1>1, <1>2, <1>3, <1>4, Zenon DEF New, Present, Leaving

\* An event leaves the queue and its caller, if it waits, is answered.
LEMMA AnswerStep ==
  ASSUME IInv, queue # <<>>, queue' = Tail(queue), NEW result \in {"ok", "err"},
         Answer(Head(queue), result),
         UNCHANGED <<pc, cur, mx, registry>>
  PROVE  /\ queue' \in Seq(Events) /\ rpc' \in {"none", "queued", "ok", "err"}
         /\ MutexInv' /\ QueueInv'
         /\ 1 \in DOMAIN queue /\ Head(queue) = queue[1]
  <1>1. queue \in Seq(Events) /\ rpc \in {"none", "queued", "ok", "err"}
    BY Zenon DEF IInv, TypeInv, Types
  <1>2. /\ queue' \in Seq(Events) /\ Len(queue) \in Nat /\ Len(queue) > 0
        /\ DOMAIN queue = 1 .. Len(queue) /\ DOMAIN queue' = 1 .. Len(queue) - 1
        /\ Head(queue) = queue[1]
    BY <1>1
  <1>3. \A i \in DOMAIN queue' : queue'[i] = queue[i + 1]
    BY <1>1, <1>2
  <1>4. \A i \in DOMAIN queue' : i \in Nat /\ i + 1 \in DOMAIN queue /\ i + 1 # 1
    BY <1>2
  <1>5. 1 \in DOMAIN queue
    BY <1>2
  <1>6. CASE queue[1].client = "waits"
    <2>1. rpc = "queued" /\ rpc' = result
      BY <1>2, <1>5, <1>6, Zenon DEF IInv, MutexInv, OneWaits, Answer
    <2>2. \A i \in DOMAIN queue' : queue'[i].client # "waits"
      BY <1>3, <1>4, <1>5, <1>6, Zenon DEF IInv, MutexInv, OneWaits
    <2>3. MutexInv'
      BY <2>1, <2>2, Zenon DEF IInv, MutexInv, OneWaits, HolderIsAnswered
    <2>4. QueueInv'
      BY <1>3, <1>4 DEF IInv, QueueInv, New, Present, Leaving
    <2> QED BY <1>2, <1>5, <2>1, <2>3, <2>4, Zenon
  <1>7. CASE queue[1].client # "waits"
    <2>1. rpc' = rpc
      BY <1>2, <1>7, Zenon DEF Answer
    <2>2. OneWaits'
      <3>1. \A i \in DOMAIN queue' : queue'[i].client = "waits" => rpc = "queued"
        BY <1>3, <1>4, Zenon DEF IInv, MutexInv, OneWaits
      <3>2. \A i, j \in DOMAIN queue' :
                queue'[i].client = "waits" /\ queue'[j].client = "waits" => i + 1 = j + 1
        BY <1>3, <1>4 DEF IInv, MutexInv, OneWaits
      <3>3. \A i, j \in DOMAIN queue' : i + 1 = j + 1 => i = j
        BY <1>2
      <3> QED BY <2>1, <3>1, <3>2, <3>3 DEF OneWaits
    <2>3. HolderIsAnswered'
      <3> SUFFICES ASSUME mx # Null, rpc = "queued"
                   PROVE  \E i \in DOMAIN queue' : /\ queue'[i].client = "waits"
                                                   /\ queue'[i].conn = cur[mx]
        BY <2>1, Zenon DEF IInv, MutexInv, HolderIsAnswered
      <3>1. PICK i \in DOMAIN queue : queue[i].client = "waits" /\ queue[i].conn = cur[mx]
        BY Zenon DEF IInv, MutexInv, HolderIsAnswered
      <3>2. i - 1 \in DOMAIN queue' /\ (i - 1) + 1 = i
        BY <1>2, <1>7, <3>1
      <3>3. queue'[i - 1] = queue[i]
        BY <1>3, <3>2, Zenon
      <3> QED BY <3>1, <3>2, <3>3, Zenon
    <2>4. MutexInv'
      BY <2>1, <2>2, <2>3, Zenon DEF IInv, MutexInv
    <2>5. QueueInv'
      BY <1>3, <1>4 DEF IInv, QueueInv, New, Present, Leaving
    <2> QED BY <1>1, <1>2, <1>5, <2>1, <2>4, <2>5, Zenon
  <1> QED BY <1>6, <1>7, Zenon

\* An event on-register-connection: the agent knows one more connection.
LEMMA HandleRegisterStep ==
  ASSUME IInv, HandleRegister
  PROVE  IInv'
  <1> DEFINE e == Head(queue)
  <1>   /\ queue # <<>> /\ queue' = Tail(queue)
        /\ UNCHANGED <<pc, cur, mx, alive, registry_sdk, registry, link, input, groups, cfg, old,
                       ids, proxy_id, epoch, snap, command, timeouts, receivers>>
    BY Zenon DEF HandleRegister, sdkvars, groupvars
  <1>1. PICK result \in {"ok", "err"} : Answer(e, result)
    BY Zenon DEF HandleRegister
  <1>2. \/ Accepts(e.conn) /\ linked' = linked \cup {e.conn}
        \/ linked' = linked
    BY Zenon DEF HandleRegister
  <1>3. /\ queue' \in Seq(Events) /\ rpc' \in {"none", "queued", "ok", "err"}
        /\ MutexInv' /\ QueueInv'
        /\ 1 \in DOMAIN queue /\ e = queue[1]
    BY <1>1, AnswerStep, Zenon
  <1>4. e.conn \in Conns /\ ~New(e.conn)
    BY <1>3, EventParts, Zenon DEF IInv, QueueInv
  <1> HIDE DEF e
  <1>5. Types'
    BY <1>2, <1>3, <1>4, Zenon DEF IInv, TypeInv, Types
  <1>6. /\ TypeInv' /\ OwnerInv' /\ StaleInv' /\ LinkInv'
        /\ \A c \in Conns : /\ New(c)' <=> New(c)
                            /\ Present(c)' <=> Present(c)
                            /\ Leaving(c)' <=> Leaving(c)
    BY <1>5, AgentFrame, Zenon
  <1>7. linked \subseteq linked' /\ linked \subseteq Conns /\ OneReceiver(linked)
    BY <1>2, Zenon DEF IInv, TypeInv, Types, KnownInv
  <1>8. KnownInv'
    <2>1. OneReceiver(linked)'
      BY <1>2, <1>4, <1>7 DEF OneReceiver, Accepts
    <2>2. \A c \in linked' : c \in Conns /\ ~New(c)
      BY <1>2, <1>4, <1>7, Zenon DEF IInv, KnownInv
    <2> QED BY <1>6, <2>1, <2>2, Zenon DEF IInv, KnownInv, OneReceiver, New
  <1>9. EpochInv'
    BY Zenon DEF IInv, EpochInv
  <1>10. KeptInv'
    BY <1>6, <1>7, Zenon DEF IInv, KeptInv, Present, Leaving
  <1> QED BY <1>3, <1>6, <1>8, <1>9, <1>10, Zenon DEF IInv

\* An event on-unregister-connection: only a connection that is leaving goes.
LEMMA HandleUnregisterStep ==
  ASSUME IInv, HandleUnregister
  PROVE  IInv'
  <1> DEFINE e == Head(queue)
  <1>   /\ queue # <<>> /\ e.op = "unregister" /\ Answer(e, "ok") /\ queue' = Tail(queue)
        /\ linked' = linked \ {e.conn}
        /\ UNCHANGED <<pc, cur, mx, alive, registry_sdk, registry, link, input, groups, cfg, old,
                       ids, proxy_id, epoch, snap, command, timeouts, receivers>>
    BY Zenon DEF HandleUnregister, sdkvars, groupvars
  <1>1. /\ queue' \in Seq(Events) /\ rpc' \in {"none", "queued", "ok", "err"}
        /\ MutexInv' /\ QueueInv'
        /\ 1 \in DOMAIN queue /\ e = queue[1]
    BY AnswerStep, Zenon
  <1>2. Present(e.conn) => Leaving(e.conn)
    BY <1>1, Zenon DEF IInv, QueueInv
  <1> HIDE DEF e
  <1>3. Types'
    BY <1>1, Zenon DEF IInv, TypeInv, Types
  <1>4. /\ TypeInv' /\ OwnerInv' /\ StaleInv' /\ LinkInv'
        /\ \A c \in Conns : /\ New(c)' <=> New(c)
                            /\ Present(c)' <=> Present(c)
                            /\ Leaving(c)' <=> Leaving(c)
    BY <1>3, AgentFrame, Zenon
  <1>5. KnownInv'
    BY DEF IInv, KnownInv, OneReceiver, New
  <1>6. EpochInv'
    BY Zenon DEF IInv, EpochInv
  <1>7. \A c : (Present(c)' <=> Present(c)) /\ (Leaving(c)' <=> Leaving(c))
    BY Zenon DEF Present, Leaving
  <1>8. \A c : c \in linked => c \in linked' \/ (Present(c) => Leaving(c))
    BY <1>2, Zenon
  <1>9. KeptInv'
    BY <1>7, <1>8, Zenon DEF IInv, KeptInv
  <1> QED BY <1>1, <1>4, <1>5, <1>6, <1>9, Zenon DEF IInv

\* The deadline of the RPC: its event stays, without a caller.
LEMMA RpcTimeoutStep ==
  ASSUME IInv, RpcTimeout
  PROVE  IInv'
  <1>   /\ rpc = "queued" /\ rpc' = "err" /\ timeouts < MaxTimeouts /\ timeouts' = timeouts + 1
        /\ queue' = [i \in DOMAIN queue |-> [queue[i] EXCEPT !.client = "gone"]]
        /\ UNCHANGED <<pc, cur, mx, alive, registry_sdk, registry, link, input, groups, cfg, old,
                       ids, proxy_id, epoch, linked, snap, command, receivers>>
    BY Zenon DEF RpcTimeout, sdkvars, groupvars
  <1>1. queue \in Seq(Events) /\ Len(queue) \in Nat /\ DOMAIN queue = 1 .. Len(queue)
    BY DEF IInv, TypeInv, Types
  <1>2. \A i \in 1 .. Len(queue) :
            /\ [queue[i] EXCEPT !.client = "gone"] \in Events
            /\ [queue[i] EXCEPT !.client = "gone"].client = "gone"
            /\ [queue[i] EXCEPT !.client = "gone"].conn = queue[i].conn
            /\ [queue[i] EXCEPT !.client = "gone"].op = queue[i].op
    <2> TAKE i \in 1 .. Len(queue)
    <2>1. queue[i] \in Events
      BY <1>1
    <2> QED BY <2>1, Zenon DEF Events
  <1>3. queue' = [i \in 1 .. Len(queue) |-> [queue[i] EXCEPT !.client = "gone"]]
    BY <1>1, Zenon
  <1>4. queue' \in Seq(Events) /\ DOMAIN queue' = DOMAIN queue
    BY <1>1, <1>2, <1>3
  <1>5. \A i \in DOMAIN queue : /\ queue'[i].client = "gone"
                                /\ queue'[i].conn = queue[i].conn
                                /\ queue'[i].op = queue[i].op
    <2> TAKE i \in DOMAIN queue
    <2>1. i \in 1 .. Len(queue) /\ queue'[i] = [queue[i] EXCEPT !.client = "gone"]
      BY <1>1, Zenon
    <2> QED BY <1>2, <2>1, Zenon
  <1>6. timeouts' \in 0 .. MaxTimeouts
    BY LocalManagerAssumption DEF IInv, TypeInv, Types
  <1>7. Types'
    BY <1>4, <1>6, Zenon DEF IInv, TypeInv, Types
  <1>8. TypeInv' /\ OwnerInv' /\ StaleInv' /\ LinkInv'
    BY <1>7, AgentFrame, Zenon
  <1>9. MutexInv'
    <2>1. OneWaits'
      BY <1>4, <1>5, Zenon DEF OneWaits
    <2> QED BY <2>1, Zenon DEF IInv, MutexInv, HolderIsAnswered
  <1>10. QueueInv'
    BY <1>4, <1>5 DEF IInv, QueueInv, New, Present, Leaving
  <1>11. KnownInv'
    BY Zenon DEF IInv, KnownInv, OneReceiver, New
  <1>12. EpochInv'
    BY Zenon DEF IInv, EpochInv
  <1>13. KeptInv'
    BY Zenon DEF IInv, KeptInv, Present, Leaving
  <1> QED BY <1>8, <1>9, <1>10, <1>11, <1>12, <1>13, Zenon DEF IInv

\* The agent reads the connections of the proxy.
LEMMA ReadProxyStep ==
  ASSUME IInv, ReadProxy
  PROVE  IInv'
  <1>   /\ proxy_id = epoch /\ snap = Null /\ command = Null /\ snap' = linked
        /\ UNCHANGED <<pc, cur, mx, alive, registry_sdk, registry, link, input, groups, cfg, old,
                       ids, proxy_id, rpc, epoch, queue, linked, command, timeouts, receivers>>
    BY Zenon DEF ReadProxy, sdkvars, groupvars
  <1>1. Types'
    BY Zenon DEF IInv, TypeInv, Types
  <1>2. TypeInv' /\ OwnerInv' /\ StaleInv' /\ LinkInv'
    BY <1>1, AgentFrame, Zenon
  <1>3. MutexInv'
    BY MutexFrame, Zenon
  <1>4. QueueInv'
    BY Zenon DEF IInv, QueueInv, New, Present, Leaving
  <1>5. KnownInv'
    BY Zenon DEF IInv, KnownInv, OneReceiver, New
  <1>6. EpochInv'
    BY Zenon DEF IInv, EpochInv
  <1>7. KeptInv'
    BY Zenon DEF IInv, KeptInv, Present, Leaving
  <1> QED BY <1>2, <1>3, <1>4, <1>5, <1>6, <1>7, Zenon DEF IInv

\* The agent sends those it still has.
LEMMA SendConfigStep ==
  ASSUME IInv, SendConfig
  PROVE  IInv'
  <1> DEFINE f == [proxy |-> epoch, conns |-> snap \cap linked]
  <1>   /\ snap # Null /\ snap' = Null /\ command' \in {Null, f}
        /\ UNCHANGED <<pc, cur, mx, alive, registry_sdk, registry, link, input, groups, cfg, old,
                       ids, proxy_id, rpc, epoch, queue, linked, timeouts, receivers>>
    BY Zenon DEF SendConfig, sdkvars, groupvars
  <1>1. f \in Configs /\ f.proxy = epoch /\ f.conns = snap \cap linked /\ f.conns \subseteq linked
    BY Zenon DEF IInv, TypeInv, Types, Configs
  <1>2. proxy_id = epoch /\ command = Null /\ epoch \in Nat
    BY DEF IInv, TypeInv, Types, EpochInv, Proxies
  <1> HIDE DEF f
  <1>3. Types'
    BY <1>1, Zenon DEF IInv, TypeInv, Types
  <1>4. TypeInv' /\ OwnerInv' /\ StaleInv' /\ LinkInv'
    BY <1>3, AgentFrame, Zenon
  <1>5. MutexInv'
    BY MutexFrame, Zenon
  <1>6. QueueInv'
    BY Zenon DEF IInv, QueueInv, New, Present, Leaving
  <1>7. KnownInv'
    <2>1. OneReceiver(f.conns) /\ \A c \in f.conns : ~New(c)
      BY <1>1, Zenon DEF IInv, KnownInv, OneReceiver
    <2> QED BY <2>1 DEF IInv, KnownInv, OneReceiver, New
  <1>8. EpochInv'
    BY <1>1, <1>2, Zenon DEF IInv, EpochInv
  <1>9. \A c : (Present(c)' <=> Present(c)) /\ (Leaving(c)' <=> Leaving(c))
    BY Zenon DEF Present, Leaving
  <1>10. KeptInv'
    BY <1>1, <1>2, <1>9, Zenon DEF IInv, KeptInv
  <1> QED BY <1>4, <1>5, <1>6, <1>7, <1>8, <1>10, Zenon DEF IInv

\* The agent restarts: every config is from an earlier incarnation.
LEMMA RestartStep ==
  ASSUME IInv, Restart
  PROVE  IInv'
  <1>   /\ epoch <= MaxRestarts /\ epoch' = epoch + 1 /\ queue' = <<>> /\ linked' = {}
        /\ snap' = Null /\ rpc' = IF rpc = "queued" THEN "err" ELSE rpc
        /\ UNCHANGED <<pc, cur, mx, alive, registry_sdk, registry, link, input, groups, cfg, old,
                       ids, proxy_id, command, timeouts, receivers>>
    BY Zenon DEF Restart, sdkvars, groupvars
  <1>1. epoch' \in Proxies
    <2>1. \A e \in Proxies : e <= MaxRestarts => e + 1 \in Proxies
      BY LocalManagerAssumption DEF Proxies
    <2>2. epoch \in Proxies
      BY Zenon DEF IInv, TypeInv, Types
    <2> QED BY <2>1, <2>2, Zenon
  <1>2. Types'
    BY <1>1 DEF IInv, TypeInv, Types
  <1>3. TypeInv' /\ OwnerInv' /\ StaleInv' /\ LinkInv'
    BY <1>2, AgentFrame, Zenon
  <1>4. MutexInv' /\ QueueInv'
    <2>1. DOMAIN queue' = {}
      OBVIOUS
    <2>2. rpc' # "queued" /\ (rpc' = "none" <=> rpc = "none")
      BY Zenon
    <2>3. rpc' \in {"none", "ok", "err"}
      BY <2>2, Zenon DEF IInv, TypeInv, Types
    <2> QED BY <2>1, <2>2, <2>3, Zenon DEF IInv, MutexInv, OneWaits, HolderIsAnswered, QueueInv
  <1>5. KnownInv'
    BY Zenon DEF IInv, KnownInv, OneReceiver, New
  <1>6. /\ cfg.proxy <= epoch /\ old.proxy <= epoch /\ proxy_id <= epoch
        /\ command # Null => command.proxy <= epoch
    BY Zenon DEF IInv, EpochInv
  <1>7. /\ cfg.proxy <= epoch' /\ cfg.proxy # epoch' /\ old.proxy <= epoch'
        /\ proxy_id <= epoch'
        /\ command # Null => command.proxy <= epoch' /\ command.proxy # epoch'
    BY <1>6, EpochParts, EarlierProxy, Zenon
  <1>8. EpochInv'
    BY <1>7, Zenon DEF IInv, EpochInv
  <1>9. KeptInv'
    BY <1>7, Zenon DEF IInv, KeptInv, Present, Leaving
  <1> QED BY <1>3, <1>4, <1>5, <1>8, <1>9, Zenon DEF IInv

-----------------------------------------------------------------------------
(* The invariant, and what it implies.                                     *)

\* The invariant holds initially.
LEMMA InitIInv == Init => IInv
  <1> SUFFICES ASSUME Init
               PROVE  IInv
    BY Zenon
  <1>   /\ receivers \in Kinds
        /\ pc = [t \in Threads |-> IF t = Api THEN "register" ELSE "start"]
        /\ cur = [t \in Threads |-> IF t = Api THEN Null ELSE t]
        /\ mx = Null /\ alive = {} /\ registry = {}
        /\ registry_sdk = [c \in Conns |-> "none"]
        /\ link = [c \in Conns |-> Null] /\ input = [k \in Keys |-> Null] /\ groups = {}
        /\ cfg = [proxy |-> 0, conns |-> {}] /\ old = cfg
        /\ ids = {} /\ proxy_id = 0 /\ rpc = "none" /\ epoch = 1 /\ queue = <<>>
        /\ linked = {} /\ snap = Null /\ command = Null /\ timeouts = 0
    BY Zenon DEF Init
  <1>1. /\ Api \in Threads /\ Conns \subseteq Threads /\ Api \notin Conns /\ Null \notin Threads
        /\ \A t \in Threads : t \in Conns \/ t = Api
        /\ MaxRestarts \in Nat /\ MaxTimeouts \in Nat
    BY LocalManagerAssumption, Zenon DEF Threads
  <1>2. /\ cfg \in Configs /\ cfg.proxy = 0 /\ cfg.conns = {}
        /\ epoch \in Proxies /\ timeouts \in 0 .. MaxTimeouts
    BY <1>1 DEF Configs, Proxies
  <1>3. /\ pc[Api] = "register" /\ \A c \in Conns : pc[c] = "start" /\ cur[c] = c
    BY <1>1, Zenon
  <1>4. Types
    <2>1. cur \in [Threads -> Conns \cup {Null}]
      BY <1>1, Zenon
    <2>2. queue \in Seq(Events)
      OBVIOUS
    <2> QED BY <1>1, <1>2, <2>1, <2>2, Zenon DEF Types
  <1>5. TypeInv
    BY <1>3, <1>4, Zenon DEF TypeInv, ClientPcs, ApiPcs
  <1>6. OwnerInv
    BY <1>1, <1>3, Zenon DEF OwnerInv, NoLeak
  <1>7. DOMAIN queue = {}
    OBVIOUS
  <1>8. MutexInv
    BY <1>1, <1>3, <1>7, Zenon DEF MutexInv, OneWaits, HolderIsAnswered
  <1>9. KnownInv /\ QueueInv
    BY <1>2, <1>7, Zenon DEF KnownInv, QueueInv, OneReceiver
  <1>10. EpochInv
    BY <1>2, <1>3 DEF EpochInv
  <1>11. KeptInv /\ StaleInv
    BY <1>2, <1>3, Zenon DEF KeptInv, StaleInv
  <1>12. LinkInv
    BY <1>2, Zenon DEF LinkInv, KeysOf
  <1> QED BY <1>5, <1>6, <1>8, <1>9, <1>10, <1>11, <1>12, Zenon DEF IInv

\* A step that changes nothing.
LEMMA StutterIInv == IInv /\ UNCHANGED vars => IInv'
  <1> SUFFICES ASSUME IInv, UNCHANGED vars
               PROVE  IInv'
    BY Zenon
  <1>   UNCHANGED <<receivers, pc, cur, mx, alive, registry_sdk, registry, link, input, groups,
                    cfg, old, ids, proxy_id, rpc, epoch, queue, linked, snap, command, timeouts>>
    BY Zenon DEF vars
  <1>1. Types'
    BY Zenon DEF IInv, TypeInv, Types
  <1>2. TypeInv' /\ OwnerInv' /\ StaleInv' /\ LinkInv'
    BY <1>1, AgentFrame, Zenon
  <1>3. MutexInv'
    BY MutexFrame, Zenon
  <1>4. QueueInv'
    BY Zenon DEF IInv, QueueInv, New, Present, Leaving
  <1>5. KnownInv'
    BY Zenon DEF IInv, KnownInv, OneReceiver, New
  <1>6. EpochInv'
    BY Zenon DEF IInv, EpochInv
  <1>7. KeptInv'
    BY Zenon DEF IInv, KeptInv, Present, Leaving
  <1> QED BY <1>2, <1>3, <1>4, <1>5, <1>6, <1>7, Zenon DEF IInv

\* Every step preserves the invariant.
LEMMA Inductive == IInv /\ [Next]_vars => IInv'
  <1> SUFFICES ASSUME IInv, [Next]_vars
               PROVE  IInv'
    BY Zenon
  <1>1. ASSUME NEW c \in Conns, CreateSteps(c)
        PROVE  IInv'
    BY <1>1, CreateConnectionStep, ConfigureFailsStep, RegisterConnectionStep, DiscardStep,
       EstablishSucceedsStep, Zenon DEF CreateSteps
  <1>2. ASSUME NEW c \in Conns, ActivateLookup(c) \/ ActivateResume(c) \/ DeleteLookup(c)
        PROVE  IInv'
    BY <1>2, LookupStep, Zenon
  <1>3. ASSUME NEW t \in Threads, DeleteSteps(t)
        PROVE  IInv'
    BY <1>3, UnregisterConnectionStep, DeleteUnlinkStep, DeleteObjectStep, UseDeletedStep, Zenon
       DEF DeleteSteps
  <1>4. CASE ApiSteps
    BY <1>4, RegisterMediaProxyStep, ShutdownStep, StartCommandQueueStep, StreamBreaksStep,
       ApplyConfigStep, ReconcileConfigStep, Zenon DEF ApiSteps
  <1>5. CASE AgentSteps
    BY <1>5, HandleRegisterStep, HandleUnregisterStep, RpcTimeoutStep, ReadProxyStep,
       SendConfigStep, RestartStep, Zenon DEF AgentSteps
  <1>6. CASE UNCHANGED vars
    BY <1>6, StutterIInv, Zenon
  <1> QED BY <1>1, <1>2, <1>3, <1>4, <1>5, <1>6, Zenon DEF Next

\* So it always holds.
LEMMA Invariance == Spec => []IInv
  BY InitIInv, Inductive, PTL DEF Spec

\* Between two configs the connections in the registry are linked exactly as
\* the last config says, whatever the number of clients, groups, restarts of
\* the agent and lost answers: a config names no connection that is still to
\* enter the registry, so that the look-up that skips one
\* (manager_multipoint.cc:254) misses none.
THEOREM LinkedAsConfiguredHolds == Spec => []LinkedAsConfigured
  <1>1. IInv => LinkedAsConfigured
    <2> SUFFICES ASSUME IInv
                 PROVE  LinkedAsConfigured
      BY Zenon
    <2>1. Types /\ (rpc # "none" =>
                       mx # Null /\ pc[mx] \in {"registering", "unregistering", "crashed"})
      BY Zenon DEF IInv, TypeInv, MutexInv
    <2>2. ~Reconcilable => old = cfg
      BY Zenon DEF IInv, EpochInv, Reconcilable
    <2>3. \A c \in registry : link[c] = IF c \in old.conns THEN KeyIn(old, c) ELSE Null
      BY Zenon DEF IInv, LinkInv
    <2> QED BY <2>1, <2>2, <2>3, Zenon DEF LinkedAsConfigured, TypeOK
  <1> QED BY <1>1, Invariance, PTL

\* A connection in the registry is never linked to a group that has been
\* deleted, nor is a group fed by a receiver that has been, although
\* reconcile_config() deletes a group without unlinking its local outputs
\* (manager_multipoint.cc:193): when it does, no output in the registry is left.
THEOREM NoDanglingLinkHolds == Spec => []NoDanglingLink
  <1>1. IInv => NoDanglingLink
    <2> SUFFICES ASSUME IInv
                 PROVE  NoDanglingLink
      BY Zenon
    <2>1. \A c \in registry : link[c] \in groups \cup {Null}
      BY Zenon DEF IInv, LinkInv, KeysOf
    <2>2. \A k \in groups : input[k] \in registry \cup {Null}
      BY Zenon DEF IInv, LinkInv, TypeInv, Types
    <2> QED BY <2>1, <2>2, Zenon DEF NoDanglingLink
  <1> QED BY <1>1, Invariance, PTL

\* At most one receiver is linked to a group, and the group knows it: the
\* agent's group_compatible() keeps this over every config, so that no receiver
\* replaces the input of another (manager_multipoint.cc:366).
THEOREM OneInputHolds == Spec => []OneInput
  <1>1. IInv => OneInput
    <2> SUFFICES ASSUME IInv, NEW c \in registry \cap receivers, link[c] # Null
                 PROVE  input[link[c]] = c
      BY Zenon DEF OneInput
    <2>1. c \in old.conns /\ link[c] = KeyIn(old, c)
      BY Zenon DEF IInv, LinkInv
    <2> QED BY <2>1, Zenon DEF IInv, LinkInv
  <1> QED BY <1>1, Invariance, PTL

\* A connection object in neither registry is in the hands of the one call that
\* creates or deletes it: no early return of create_connection_sdk() or
\* delete_connection_sdk() leaks it.
THEOREM NoLeakHolds == Spec => []NoLeak
  <1>1. IInv => NoLeak
    BY Zenon DEF IInv, OwnerInv
  <1> QED BY <1>1, Invariance, PTL

\* The thread that holds the mutex of the local manager over an RPC has its
\* answer, or its request is in the agent's queue: neither a restart nor a
\* deadline leaves it waiting with the mutex locked (manager_local.cc:101, 183).
THEOREM HolderIsAnsweredHolds == Spec => []HolderIsAnswered
  <1>1. IInv => HolderIsAnswered
    BY Zenon DEF IInv, MutexInv
  <1> QED BY <1>1, Invariance, PTL
=============================================================================
