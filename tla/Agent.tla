---- MODULE Agent ----
(***************************************************************************)
(* The Mesh Control Plane Agent: the registries of Media Proxies,          *)
(* connections, multipoint groups and bridges; the event processor that    *)
(* runs the actions of the business logic manifest one event at a time;    *)
(* the Proxy API handlers that post the events; and the worker that turns  *)
(* registry contents into configurations for the proxies.                  *)
(*                                                                         *)
(* One step of the event processor is one manifest action.  The API        *)
(* handlers and the worker run between the actions.  What happens between  *)
(* a configuration being sent and the proxy applying it is the subject of  *)
(* module CommandQueue: here a proxy whose command stream was started      *)
(* receives what is sent to it.                                            *)
(***************************************************************************)
EXTENDS Integers, Sequences, SequencesExt, FiniteSets, FiniteSetsExt, Functions

CONSTANTS Proxies,      \* identifiers the registry hands out to proxies
          Conns,        \* identifiers the registry hands out to connections
          Groups,       \* group URNs used by the applications
          Payloads,     \* payload configurations of connections
          Requests,     \* what applications ask for: [group, kind, cfg]
          Running,      \* proxies that run when the behaviour begins
          Ip,           \* Ip[p]: RDMA data plane address of proxy p
          Ports,        \* Ports[p]: RDMA ports proxy p may listen on
          MaxLoad,      \* bound: work under way when a call arrives
          MaxLost,      \* bound: calls that time out
          None

Kinds == {"tx", "rx"}
Types == {"group", "st2110"}
Cfgs  == [type : Types, payload : Payloads]

ASSUME AgentAssumption ==
    /\ Ip \in [Proxies -> Nat]
    /\ Ports \in [Proxies -> SUBSET (Nat \ {0})]
    /\ Requests \subseteq [group : Groups, kind : Kinds, cfg : Cfgs]
    /\ Running \subseteq Proxies
    /\ MaxLoad \in Nat /\ MaxLost \in Nat

VARIABLES
    proxies,    \* MediaProxyRegistry: id -> [active, conns, bridges]
    conns,      \* ConnRegistry:       id -> [proxy, group, kind, cfg]
    groups,     \* MultipointGroupRegistry: id -> [conns, bridges, cfg]
    bridges,    \* BridgeRegistry:     id -> [proxy, group, type, kind, remote, port]
    fresh,      \* the next bridge identifier
    queue,      \* events posted and not yet taken by the processor
    evt,        \* the event in progress, or None
    stack,      \* manifest actions still to be performed for evt
    ctx,        \* values the actions put into the event's context
    pcall,      \* pcall[p]: progress of proxy p's API calls
    ccall,      \* ccall[c]: progress of connection c's API calls
    req,        \* req[c]: the request that asks to register c
    applyq,     \* ApplyProxyConfigQueue
    work,       \* the worker: the proxy it configures and what it has read
    sent,       \* sent[p]: the last configuration sent to proxy p
    missed      \* a change was made that no proxy was told about

registries == <<proxies, conns, groups, bridges, fresh>>
event      == <<evt, stack, ctx>>
calls      == <<pcall, ccall, req>>
worker     == <<applyq, work, sent>>
vars       == <<registries, queue, event, calls, worker, missed>>

NewProxy(active) == [active |-> active, conns |-> {}, bridges |-> {}]

NoCtx  == [conn |-> None, bridge |-> None, incompatible |-> FALSE]
NoWork == [pc |-> "idle", proxy |-> None, conns |-> {}, groups |-> {},
           todo |-> {}, got |-> {}]

(***************************************************************************)
(* The manifest: for every event the actions to perform; each action has a *)
(* branch for success (or true) and one for error (or false).              *)
(***************************************************************************)
Act(name, then, else) == [act |-> name, then |-> then, else |-> else]
Leaf(name)            == Act(name, <<>>, <<>>)

JoinGroup == <<Leaf("link-connection"), Leaf("star-interconnect")>>

AddST2110Group ==
    Act("add-group-st2110",
        <<Act("add-bridge-st2110", <<Leaf("link-bridge")>>, <<>>)>>, <<>>)

Manifest ==
    [register |->
        <<Act("if-group-exists",
              <<Act("if-group-compatible",
                    <<Act("add-connection", JoinGroup, <<>>)>>, <<>>)>>,
              <<Act("add-connection",
                    <<Act("if-st2110", <<AddST2110Group>>, <<>>)>> \o JoinGroup,
                    <<>>)>>)>>,
     registered   |-> <<Act("if-proxy-active",
                            <<Leaf("all-proxies-apply-config")>>, <<>>)>>,
     unregister   |-> <<Act("delete-connection",
                            <<Leaf("unlink-connection"),
                              Leaf("delete-group-if-empty"),
                              Leaf("star-interconnect")>>, <<>>)>>,
     unregistered |-> <<Leaf("all-proxies-apply-config")>>,
     add          |-> <<Leaf("add-proxy")>>,
     activate     |-> <<Leaf("proxy-apply-config")>>,
     remove       |-> <<Leaf("delete-proxy")>>]

Event(type, p, c, g) == [type |-> type, proxy |-> p, conn |-> c, group |-> g]

Post(e) == queue' = Append(queue, e)

(***************************************************************************)
(* Registries: adding, deleting and updating one resource, and the lists   *)
(* and links between the four of them.  An update of a resource that is    *)
(* not registered fails and changes nothing.                               *)
(***************************************************************************)
AddOne(reg, id, item) ==
    IF id \in DOMAIN reg THEN reg
    ELSE [x \in DOMAIN reg \union {id} |-> IF x = id THEN item ELSE reg[x]]

DeleteOne(reg, id) == Restrict(reg, DOMAIN reg \ {id})

UpdateOne(reg, id, field, value) ==
    IF id \in DOMAIN reg THEN [reg EXCEPT ![id] = [@ EXCEPT ![field] = value]] ELSE reg

\* An empty list of identifiers asks a registry for all its resources.
ReadMany(reg, ids) == IF ids = {} THEN DOMAIN reg ELSE ids \intersect DOMAIN reg

ProxyAdd(p)           == AddOne(proxies, p, NewProxy(FALSE))
ProxyDelete(p)        == DeleteOne(proxies, p)
ProxyFound(p)         == p \in DOMAIN proxies
ProxyList             == ReadMany(proxies, {})
ProxyUpdate(p, field, value) == UpdateOne(proxies, p, field, value)
ProxyLinkConn(p, c)   == ProxyUpdate(p, "conns", proxies[p].conns \union {c})
ProxyUnlinkConn(p, c) == ProxyUpdate(p, "conns", proxies[p].conns \ {c})
ProxyLinkBridge(p, b) == ProxyUpdate(p, "bridges", proxies[p].bridges \union {b})
ProxySetActive(p)     == ProxyUpdate(p, "active", TRUE)

GroupAdd(g, cs, cfg)  == AddOne(groups, g, [conns |-> cs, bridges |-> {}, cfg |-> cfg])
GroupDelete(g)        == DeleteOne(groups, g)
GroupFound(g)         == g \in DOMAIN groups
GroupList             == ReadMany(groups, {})
GroupUpdate(g, field, value) == UpdateOne(groups, g, field, value)
GroupLinkConn(g, c)   == GroupUpdate(g, "conns", groups[g].conns \union {c})
GroupUnlinkConn(g, c) == GroupUpdate(g, "conns", groups[g].conns \ {c})
GroupLinkBridge(g, b) == GroupUpdate(g, "bridges", groups[g].bridges \union {b})

ConnAdd(c, item)      == AddOne(conns, c, item)
ConnDelete(c)         == DeleteOne(conns, c)
ConnFound(c)          == c \in DOMAIN conns
ConnList(ids)         == ReadMany(conns, ids)
ConnUpdate(c, field, value) == UpdateOne(conns, c, field, value)
ConnLinkGroup(c, g)   == ConnUpdate(c, "group", g)

BridgeAdd(b, item)    == AddOne(bridges, b, item)
BridgeDelete(ids)     == Restrict(bridges, DOMAIN bridges \ ids)
BridgeFound(b)        == b \in DOMAIN bridges
BridgeList(ids)       == ReadMany(bridges, ids)
BridgeUpdate(b, field, value) == UpdateOne(bridges, b, field, value)
BridgeLinkGroup(b, g) == BridgeUpdate(b, "group", g)

\* The proxies, and the groups, after the bridges in ids are unlinked from them.
ProxiesUnlinkBridges(ids) ==
    [p \in DOMAIN proxies |-> [proxies[p] EXCEPT !.bridges = @ \ ids]]
GroupsUnlinkBridges(ids) ==
    [g \in DOMAIN groups |-> [groups[g] EXCEPT !.bridges = @ \ ids]]

\* The worker's copy of a proxy's record shares the array of bridge ids with
\* the registry: taking bridges out of the array moves the others under the
\* worker's loop, which then passes over some of them.
Shift(shrunk) ==
    \E lost \in SUBSET work.todo :
        /\ work.proxy \notin shrunk => lost = {}
        /\ work' = [work EXCEPT !.todo = @ \ lost]

(***************************************************************************)
(* Port masks and the choice of RDMA ports for incoming bridges            *)
(***************************************************************************)
EmptyMask == [used |-> {}, initial |-> 0]

SetBit(mask, i) ==
    [used    |-> mask.used \union {i},
     initial |-> IF i = mask.initial THEN i + 1 ELSE mask.initial]

\* Mutant: the ports in use are not looked at.
FreePortsAny(mask, allowed) == {i \in allowed : i >= mask.initial}

FreePorts(mask, allowed) == {i \in allowed \ mask.used : i >= mask.initial}

\* Result: the port, or 0 when there is none, and the mask afterwards.
AllocateFirstAvailablePort(mask, allowed) ==
    LET free == FreePorts(mask, allowed) IN
    IF free = {} THEN [port |-> 0, mask |-> mask]
    ELSE [port |-> Min(free),
          mask |-> [used |-> mask.used \union {Min(free)},
                    initial |-> Min(free) + 1]]

IncomingRdma(b) == bridges[b].kind = "rx" /\ bridges[b].type = "rdma"

\* The mask of RDMA listening ports in use on proxy p.
PortMask(p) ==
    FoldSet(LAMBDA i, mask : SetBit(mask, i), EmptyMask,
            {bridges[b].port : b \in {x \in proxies[p].bridges \intersect DOMAIN bridges :
                                        IncomingRdma(x)}})

(***************************************************************************)
(* Star interconnect: where every group has its source and its             *)
(* destinations, and the pairs of RDMA bridges that join them              *)
(***************************************************************************)
SourceConns(g)   == {c \in groups[g].conns : c \in ConnList({}) /\ conns[c].kind = "rx"}
SourceBridges(g) == {b \in groups[g].bridges :
                        /\ b \in BridgeList({})
                        /\ bridges[b].type = "st2110"
                        /\ bridges[b].kind = "rx"}

\* A group the search for sources and destinations gives up on.
Broken(g) ==
    \/ ~ groups[g].conns \subseteq DOMAIN conns
    \/ Cardinality(SourceConns(g)) > 1
    \/ /\ SourceConns(g) = {}
       /\ \/ ~ groups[g].bridges \subseteq DOMAIN bridges
          \/ Cardinality(SourceBridges(g)) > 1

SourceProxies(g) ==
    IF SourceConns(g) # {} THEN {conns[c].proxy : c \in SourceConns(g)}
                           ELSE {bridges[b].proxy : b \in SourceBridges(g)}

DestProxies(g) == {conns[c].proxy : c \in {x \in groups[g].conns : conns[x].kind = "tx"}}

\* Every pair: an incoming bridge on dest and an outgoing bridge on source.
WantedPairs ==
    {pair \in [group : DOMAIN groups, source : DOMAIN proxies, dest : DOMAIN proxies] :
        /\ pair.source \in SourceProxies(pair.group)
        /\ pair.dest \in DestProxies(pair.group) \ {pair.source}}

Bridge(p, g, type, kind, remote, port) ==
    [proxy |-> p, group |-> g, type |-> type, kind |-> kind,
     remote |-> remote, port |-> port]

Ingress(pair, port) ==
    Bridge(pair.dest, pair.group, "rdma", "rx", Ip[pair.source], port)
Egress(pair, port) ==
    Bridge(pair.source, pair.group, "rdma", "tx", Ip[pair.dest], port)

\* A registered bridge stands for a wanted one whatever its port is.
SameBridge(b, w) == [bridges[b] EXCEPT !.port = w.port] = w

Exists(w)  == \E b \in DOMAIN bridges : SameBridge(b, w)
Unwanted   == {b \in DOMAIN bridges :
                  /\ bridges[b].type = "rdma"
                  /\ \A pair \in WantedPairs :
                        ~ SameBridge(b, Ingress(pair, 0)) /\ ~ SameBridge(b, Egress(pair, 0))}

\* The bridges added for one pair after those in acc.  An ingress bridge is
\* left out when its proxy has no free port; the egress bridge is added with
\* whatever port the pair has by then.
AddPair(pair, acc) ==
    LET alloc == AllocateFirstAvailablePort(acc.masks[pair.dest], Ports[pair.dest])
        newRx == ~ Exists(Ingress(pair, 0))
        newTx == ~ Exists(Egress(pair, 0))
        port  == IF newRx THEN alloc.port ELSE 0
    IN [masks |-> IF newRx THEN [acc.masks EXCEPT ![pair.dest] = alloc.mask] ELSE acc.masks,
        added |-> acc.added
                  \o (IF newRx /\ port # 0 THEN <<Ingress(pair, port)>> ELSE <<>>)
                  \o (IF newTx THEN <<Egress(pair, port)>> ELSE <<>>)]

\* The pairs are visited in the order of a Go map: any order.
AddedBridges(order) ==
    FoldLeft(LAMBDA acc, pair : AddPair(pair, acc),
             [masks |-> [p \in DOMAIN proxies |-> PortMask(p)], added |-> <<>>],
             order).added

(***************************************************************************)
(* The event processor                                                     *)
(***************************************************************************)
TakeEvent ==
    /\ evt = None /\ queue # <<>>
    /\ evt' = Head(queue)
    /\ queue' = Tail(queue)
    /\ stack' = Manifest[Head(queue).type]
    /\ ctx' = NoCtx
    /\ UNCHANGED <<registries, calls, worker, missed>>

Doing(act) == stack # <<>> /\ Head(stack).act = act

\* Leave the action at the top of the stack through its branch for result.
Continue(result) ==
    /\ stack' = (IF result THEN Head(stack).then ELSE Head(stack).else) \o Tail(stack)
    /\ UNCHANGED <<evt, queue, calls>>

\* The reply reaches the handler if it still waits.
FinishEvent ==
    /\ evt # None /\ stack = <<>>
    /\ evt' = None
    /\ ctx' = NoCtx
    /\ pcall' = CASE evt.type = "add"    -> [pcall EXCEPT ![evt.proxy] = "up"]
                  [] evt.type = "remove" -> [pcall EXCEPT ![evt.proxy] = "gone"]
                  [] OTHER               -> pcall
    /\ ccall' = IF evt.conn # None /\ ccall[evt.conn] \in {"registering", "unregistering"}
                THEN [ccall EXCEPT ![evt.conn] =
                        CASE evt.type = "unregister" -> "deleted"
                          [] ctx.incompatible        -> "refused"
                          [] ctx.conn = None         -> "refused"
                          [] OTHER                   -> "added"]
                ELSE ccall
    /\ missed' = (missed \/ (evt.conn # None /\ ccall[evt.conn] = "lost"))
    /\ UNCHANGED <<registries, queue, stack, req, worker>>

(***************************************************************************)
(* The manifest actions                                                    *)
(***************************************************************************)
IfGroupExists ==
    /\ Doing("if-group-exists")
    /\ Continue(GroupFound(evt.group))
    /\ UNCHANGED <<registries, ctx, worker, missed>>

\* Mutant: only the bridges are looked at.
GroupAcceptsConnectionKindBridges(g, kind) ==
    kind = "rx" => \A b \in BridgeList(groups[g].bridges) : bridges[b].kind # "rx"

GroupAcceptsConnectionKind(g, kind) ==
    kind = "rx" =>
        /\ \A c \in ConnList(groups[g].conns) : conns[c].kind # "rx"
        /\ \A b \in BridgeList(groups[g].bridges) : bridges[b].kind # "rx"

PayloadCompatible(g, cfg) == groups[g].cfg = cfg

IfGroupCompatible ==
    LET r  == req[evt.conn]
        ok == /\ GroupAcceptsConnectionKind(evt.group, r.kind)
              /\ PayloadCompatible(evt.group, r.cfg)
    IN /\ Doing("if-group-compatible")
       /\ ctx' = [ctx EXCEPT !.incompatible = ~ ok]
       /\ Continue(ok)
       /\ UNCHANGED <<registries, worker, missed>>

IfST2110 ==
    /\ Doing("if-st2110")
    /\ Continue(req[evt.conn].cfg.type = "st2110")
    /\ UNCHANGED <<registries, ctx, worker, missed>>

IfProxyActive ==
    LET active == ProxyFound(evt.proxy) /\ proxies[evt.proxy].active
    IN /\ Doing("if-proxy-active")
       /\ missed' = (missed \/ ~ active)
       /\ Continue(active)
       /\ UNCHANGED <<registries, ctx, worker>>

AddProxy ==
    /\ Doing("add-proxy")
    /\ proxies' = ProxyAdd(evt.proxy)
    /\ Continue(TRUE)
    /\ UNCHANGED <<conns, groups, bridges, fresh, ctx, worker, missed>>

DeleteProxy ==
    /\ Doing("delete-proxy")
    /\ proxies' = ProxyDelete(evt.proxy)
    /\ Continue(ProxyFound(evt.proxy))
    /\ UNCHANGED <<conns, groups, bridges, fresh, ctx, worker, missed>>

AddConnection ==
    LET r == req[evt.conn] IN
    /\ Doing("add-connection")
    /\ conns' = ConnAdd(evt.conn, [proxy |-> r.proxy, group |-> None,
                                    kind |-> r.kind, cfg |-> r.cfg])
    /\ proxies' = ProxyLinkConn(r.proxy, evt.conn)
    /\ ctx' = IF ProxyFound(r.proxy) THEN [ctx EXCEPT !.conn = evt.conn] ELSE ctx
    /\ Continue(ProxyFound(r.proxy))
    /\ UNCHANGED <<groups, bridges, fresh, worker, missed>>

AddGroupST2110 ==
    LET new == evt.group \notin DOMAIN groups IN
    /\ Doing("add-group-st2110")
    /\ groups' = GroupAdd(evt.group, {}, req[evt.conn].cfg)
    /\ Continue(new)
    /\ UNCHANGED <<proxies, conns, bridges, fresh, ctx, worker, missed>>

\* An application that sends to the mesh is fed from the network and the
\* other way round: the kind of the bridge is the opposite of the kind of
\* the connection.
Opposite(kind) == IF kind = "tx" THEN "rx" ELSE "tx"

AddBridgeST2110 ==
    LET r == req[evt.conn] IN
    /\ Doing("add-bridge-st2110")
    /\ bridges' = BridgeAdd(fresh,
                         Bridge(r.proxy, evt.group, "st2110", Opposite(r.kind), 0, 0))
    /\ fresh' = fresh + 1
    /\ proxies' = ProxyLinkBridge(r.proxy, fresh)
    /\ ctx' = IF ProxyFound(r.proxy) THEN [ctx EXCEPT !.bridge = fresh] ELSE ctx
    /\ Continue(ProxyFound(r.proxy))
    /\ UNCHANGED <<conns, groups, worker, missed>>

LinkBridge ==
    /\ Doing("link-bridge")
    /\ bridges' = BridgeLinkGroup(ctx.bridge, evt.group)
    /\ groups' = GroupLinkBridge(evt.group, ctx.bridge)
    /\ Continue(GroupFound(evt.group))
    /\ UNCHANGED <<proxies, conns, fresh, ctx, worker, missed>>

LinkConnection ==
    /\ Doing("link-connection")
    /\ conns' = ConnLinkGroup(evt.conn, evt.group)
    /\ groups' = IF GroupFound(evt.group)
                 THEN GroupLinkConn(evt.group, evt.conn)
                 ELSE GroupAdd(evt.group, {evt.conn}, req[evt.conn].cfg)
    /\ Continue(TRUE)
    /\ UNCHANGED <<proxies, bridges, fresh, ctx, worker, missed>>

DeleteConnection ==
    LET found  == ConnFound(evt.conn)
        linked == ProxyFound(evt.proxy) /\ evt.conn \in proxies[evt.proxy].conns
    IN /\ Doing("delete-connection")
       /\ conns' = ConnDelete(evt.conn)
       /\ proxies' = IF found THEN ProxyUnlinkConn(evt.proxy, evt.conn) ELSE proxies
       /\ Continue(found /\ linked)
       /\ UNCHANGED <<groups, bridges, fresh, ctx, worker, missed>>

UnlinkConnection ==
    /\ Doing("unlink-connection")
    /\ groups' = GroupUnlinkConn(evt.group, evt.conn)
    /\ Continue(TRUE)
    /\ UNCHANGED <<proxies, conns, bridges, fresh, ctx, worker, missed>>

\* Take the bridges in ids out of the bridge registry and of their proxies.
DropBridges(ids) ==
    /\ bridges' = BridgeDelete(ids)
    /\ proxies' = ProxiesUnlinkBridges(ids \intersect DOMAIN bridges)
    /\ Shift({bridges[b].proxy : b \in ids \intersect DOMAIN bridges})

\* Mutant: the bridges of the group stay.
DeleteGroupIfEmptyKeepsBridges ==
    LET g     == evt.group
        empty == GroupFound(g) /\ groups[g].conns = {}
    IN /\ Doing("delete-group-if-empty")
       /\ groups' = IF empty THEN GroupDelete(g) ELSE groups
       /\ Continue(GroupFound(g))
       /\ UNCHANGED <<proxies, conns, bridges, fresh, ctx, worker, missed>>

DeleteGroupIfEmpty ==
    LET g     == evt.group
        empty == GroupFound(g) /\ groups[g].conns = {}
    IN /\ Doing("delete-group-if-empty")
       /\ DropBridges(IF empty THEN groups[g].bridges ELSE {})
       /\ groups' = IF empty THEN GroupDelete(g) ELSE groups
       /\ Continue(GroupFound(g))
       /\ UNCHANGED <<conns, fresh, ctx, applyq, sent, missed>>

StarInterconnect ==
    /\ Doing("star-interconnect")
    /\ \/ /\ \/ {} \in {GroupList, ConnList({}), ProxyList}
             \/ \E g \in DOMAIN groups : Broken(g)
          /\ UNCHANGED <<registries, work>>
       \/ /\ {} \notin {GroupList, ConnList({}), ProxyList}
          /\ \A g \in DOMAIN groups : ~ Broken(g)
          /\ \E order \in SetToSeqs(WantedPairs) :
                LET added == AddedBridges(order)
                    ids   == fresh .. fresh + Len(added) - 1
                    Of(field, x) == {i \in ids : added[i - fresh + 1][field] = x}
                IN /\ bridges' = [b \in (DOMAIN bridges \ Unwanted) \union ids |->
                                     IF b \in ids THEN added[b - fresh + 1] ELSE bridges[b]]
                   /\ proxies' = [p \in DOMAIN proxies |->
                         [ProxiesUnlinkBridges(Unwanted)[p] EXCEPT
                             !.bridges = @ \union Of("proxy", p)]]
                   /\ groups' = [g \in DOMAIN groups |->
                         [GroupsUnlinkBridges(Unwanted)[g] EXCEPT
                             !.bridges = @ \union Of("group", g)]]
                   /\ fresh' = fresh + Len(added)
          /\ Shift({bridges[b].proxy : b \in Unwanted})
          /\ UNCHANGED conns
    /\ Continue(TRUE)
    /\ UNCHANGED <<ctx, applyq, sent, missed>>

ProxyApplyConfig ==
    /\ Doing("proxy-apply-config")
    /\ applyq' = Append(applyq, evt.proxy)
    /\ Continue(TRUE)
    /\ UNCHANGED <<registries, ctx, work, sent, missed>>

\* Mutant: a proxy that is being configured is left out.
AllProxiesApplyConfigOnce ==
    /\ Doing("all-proxies-apply-config")
    /\ \E order \in SetToSeqs(ProxyList \ {work.proxy}) : applyq' = applyq \o order
    /\ missed' = FALSE
    /\ Continue(TRUE)
    /\ UNCHANGED <<registries, ctx, work, sent>>

AllProxiesApplyConfig ==
    /\ Doing("all-proxies-apply-config")
    /\ \E order \in SetToSeqs(ProxyList) : applyq' = applyq \o order
    /\ missed' = FALSE
    /\ Continue(TRUE)
    /\ UNCHANGED <<registries, ctx, work, sent>>

(***************************************************************************)
(* The Proxy API.  A call that waits for its event gives up when the       *)
(* client's deadline or the 20 seconds of the event expire; the event is   *)
(* processed all the same.                                                 *)
(***************************************************************************)
Waiting == {"registering", "added", "unregistering", "deleted"}

MayCall ==
    Len(queue) + Len(applyq) + Cardinality({c \in Conns : ccall[c] \in Waiting})
        + (IF evt = None THEN 0 ELSE 1) + (IF work.pc = "idle" THEN 0 ELSE 1) <= MaxLoad

RegisterMediaProxy(p) ==
    /\ pcall[p] = "none" /\ MayCall
    /\ pcall' = [pcall EXCEPT ![p] = "registering"]
    /\ Post(Event("add", p, None, None))
    /\ UNCHANGED <<registries, event, ccall, req, worker, missed>>

StartCommandQueue(p) ==
    /\ pcall[p] = "up" /\ ProxyFound(p) /\ MayCall
    /\ pcall' = [pcall EXCEPT ![p] = "started"]
    /\ proxies' = ProxySetActive(p)
    /\ Post(Event("activate", p, None, None))
    /\ UNCHANGED <<conns, groups, bridges, fresh, event, ccall, req, worker, missed>>

\* A proxy unregisters after it has deleted its connections.
UnregisterMediaProxy(p) ==
    /\ pcall[p] \in {"up", "started"} /\ MayCall
    /\ \A c \in Conns : req[c] # None /\ req[c].proxy = p =>
                            ccall[c] \in {"refused", "gone", "lost"}
    /\ pcall' = [pcall EXCEPT ![p] = "leaving"]
    /\ Post(Event("remove", p, None, None))
    /\ UNCHANGED <<registries, event, ccall, req, worker, missed>>

RegisterConnection(c, p, r) ==
    /\ ccall[c] = "none" /\ pcall[p] \in {"up", "started"} /\ MayCall
    /\ ccall' = [ccall EXCEPT ![c] = "registering"]
    /\ req' = [req EXCEPT ![c] = [proxy |-> p, kind |-> r.kind, cfg |-> r.cfg]]
    /\ Post(Event("register", p, c, r.group))
    /\ UNCHANGED <<registries, event, pcall, worker, missed>>

RegisterConnectionOk(c) ==
    /\ ccall[c] = "added"
    /\ ccall' = [ccall EXCEPT ![c] = "up"]
    /\ Post(Event("registered", req[c].proxy, None, None))
    /\ UNCHANGED <<registries, event, pcall, req, worker, missed>>

UnregisterConnection(c) ==
    /\ ccall[c] = "up" /\ ConnFound(c) /\ MayCall
    /\ ccall' = [ccall EXCEPT ![c] = "unregistering"]
    /\ Post(Event("unregister", req[c].proxy, c, conns[c].group))
    /\ UNCHANGED <<registries, event, pcall, req, worker, missed>>

UnregisterConnectionOk(c) ==
    /\ ccall[c] = "deleted"
    /\ ccall' = [ccall EXCEPT ![c] = "gone"]
    /\ Post(Event("unregistered", None, None, None))
    /\ UNCHANGED <<registries, event, pcall, req, worker, missed>>

\* Nothing is posted for a registration that timed out.  After a timed out
\* unregistration the posting goes through unless the call was cancelled.
Timeout(c) ==
    /\ Cardinality({x \in Conns : ccall[x] = "lost"}) < MaxLost
    /\ \/ /\ ccall[c] \in {"registering", "unregistering"}
          /\ ccall' = [ccall EXCEPT ![c] = "lost"]
          /\ UNCHANGED queue
       \/ /\ ccall[c] = "unregistering"
          /\ ccall' = [ccall EXCEPT ![c] = "gone"]
          /\ Post(Event("unregistered", None, None, None))
    /\ UNCHANGED <<registries, event, pcall, req, worker, missed>>

(***************************************************************************)
(* The worker that sends configurations: it reads the proxy, then the      *)
(* groups, then the bridges one by one.                                    *)
(***************************************************************************)
Valid(b) == bridges[b].type = "rdma" => bridges[b].port # 0

GroupConfigs(cs, bs) ==
    {[group |-> g, conns |-> groups[g].conns \intersect cs,
      bridges |-> groups[g].bridges \intersect bs] :
        g \in {h \in GroupList : groups[h].conns \intersect cs # {}}}

WorkerTake ==
    /\ work.pc = "idle" /\ applyq # <<>>
    /\ applyq' = Tail(applyq)
    /\ LET p == Head(applyq) IN
       work' = IF ProxyFound(p)
               THEN [NoWork EXCEPT !.pc = "groups", !.proxy = p,
                                   !.conns = proxies[p].conns, !.todo = proxies[p].bridges]
               ELSE work
    /\ UNCHANGED <<registries, queue, event, calls, sent, missed>>

WorkerListGroups ==
    /\ work.pc = "groups"
    /\ work' = [work EXCEPT !.pc = "bridges", !.groups = GroupConfigs(work.conns, work.todo)]
    /\ UNCHANGED <<registries, queue, event, calls, applyq, sent, missed>>

WorkerGetBridge ==
    /\ work.pc = "bridges"
    /\ \E b \in work.todo :
          work' = [work EXCEPT !.todo = @ \ {b},
                               !.got = IF BridgeFound(b) /\ Valid(b)
                                       THEN @ \union {b} ELSE @]
    /\ UNCHANGED <<registries, queue, event, calls, applyq, sent, missed>>

WorkerSend ==
    LET p == work.proxy IN
    /\ work.pc = "bridges" /\ work.todo = {}
    /\ sent' = IF ProxyFound(p) /\ proxies[p].active
               THEN [sent EXCEPT ![p] = [groups |-> work.groups, bridges |-> work.got]]
               ELSE sent
    /\ work' = NoWork
    /\ UNCHANGED <<registries, queue, event, calls, applyq, missed>>

Init ==
    /\ proxies = [p \in Running |-> NewProxy(TRUE)]
    /\ conns = <<>> /\ groups = <<>> /\ bridges = <<>> /\ fresh = 1
    /\ queue = <<>> /\ evt = None /\ stack = <<>> /\ ctx = NoCtx
    /\ pcall = [p \in Proxies |-> IF p \in Running THEN "started" ELSE "none"]
    /\ ccall = [c \in Conns |-> "none"]
    /\ req = [c \in Conns |-> None]
    /\ applyq = <<>> /\ work = NoWork
    /\ sent = [p \in Proxies |-> IF p \in Running THEN [groups |-> {}, bridges |-> {}]
                                                   ELSE None]
    /\ missed = FALSE

Next ==
    \/ TakeEvent \/ FinishEvent
    \/ IfGroupExists \/ IfGroupCompatible \/ IfST2110 \/ IfProxyActive
    \/ AddProxy \/ DeleteProxy
    \/ AddConnection \/ AddGroupST2110 \/ AddBridgeST2110 \/ LinkBridge \/ LinkConnection
    \/ DeleteConnection \/ UnlinkConnection \/ DeleteGroupIfEmpty
    \/ StarInterconnect \/ ProxyApplyConfig \/ AllProxiesApplyConfig
    \/ \E p \in Proxies : \/ RegisterMediaProxy(p) \/ StartCommandQueue(p)
                          \/ UnregisterMediaProxy(p)
    \/ \E c \in Conns, p \in Proxies, r \in Requests : RegisterConnection(c, p, r)
    \/ \E c \in Conns : \/ RegisterConnectionOk(c) \/ UnregisterConnection(c)
                        \/ UnregisterConnectionOk(c) \/ Timeout(c)
    \/ WorkerTake \/ WorkerListGroups \/ WorkerGetBridge \/ WorkerSend

Spec == Init /\ [][Next]_vars

----
(***************************************************************************)
(* Properties                                                              *)
(***************************************************************************)

\* The type of the state.
TypeOK ==
    /\ DOMAIN proxies \subseteq Proxies
    /\ \A p \in DOMAIN proxies :
          /\ proxies[p].active \in BOOLEAN
          /\ proxies[p].conns \subseteq Conns
          /\ proxies[p].bridges \subseteq 1 .. fresh - 1
    /\ DOMAIN conns \subseteq Conns
    /\ \A c \in DOMAIN conns :
          conns[c] \in [proxy : Proxies, group : Groups \union {None}, kind : Kinds, cfg : Cfgs]
    /\ DOMAIN groups \subseteq Groups
    /\ \A g \in DOMAIN groups :
          groups[g] \in [conns : SUBSET Conns, bridges : SUBSET (1 .. fresh - 1), cfg : Cfgs]
    /\ DOMAIN bridges \subseteq 1 .. fresh - 1
    /\ evt # None => evt.type \in DOMAIN Manifest
    /\ Range(applyq) \subseteq Proxies

BetweenEvents == evt = None

\* Between two events the four registries tell the same story: a connection
\* or bridge is listed by its group, and by its proxy while the proxy is
\* registered, and no group or proxy lists anything else.  The links are
\* written by different actions, each of which may fail halfway (the
\* registry-add-*, registry-delete-* and registry-update-* actions).  All the
\* while the variables keep their types.
RegistriesAgree ==
    /\ TypeOK
    /\ BetweenEvents =>
        /\ \A g \in DOMAIN groups :
              /\ groups[g].conns = {c \in DOMAIN conns : conns[c].group = g}
              /\ groups[g].bridges = {b \in DOMAIN bridges : bridges[b].group = g}
        /\ \A p \in DOMAIN proxies :
              /\ proxies[p].conns = {c \in DOMAIN conns : conns[c].proxy = p}
              /\ proxies[p].bridges = {b \in DOMAIN bridges : bridges[b].proxy = p}
        /\ \A c \in DOMAIN conns : conns[c].group \in DOMAIN groups
        /\ \A b \in DOMAIN bridges : bridges[b].group \in DOMAIN groups

\* A group never has two sources of media, whichever requests to join it
\* race: CheckIfGroupAcceptsConnectionKind and the ST2110 bridge that a new
\* group starts with exclude a second receiving connection or bridge.
OneSource ==
    \A g \in DOMAIN groups : Cardinality(SourceConns(g)) + Cardinality(SourceBridges(g)) <= 1

\* Between two events every destination proxy of a group is joined to the
\* proxy of the source by exactly one incoming bridge, whose listening port
\* no other bridge of that proxy has and is one it may use, and by one
\* outgoing bridge to that port; and there are no other RDMA bridges
\* between registered proxies.
StarComplete ==
    BetweenEvents =>
        LET rdma == {b \in DOMAIN bridges :
                        /\ bridges[b].type = "rdma"
                        /\ bridges[b].proxy \in DOMAIN proxies
                        /\ bridges[b].remote \in {Ip[p] : p \in DOMAIN proxies}}
            At(w) == {b \in rdma : SameBridge(b, w)}
        IN /\ \A pair \in WantedPairs :
                 \E i \in rdma, o \in rdma :
                    /\ At(Ingress(pair, 0)) = {i} /\ At(Egress(pair, 0)) = {o}
                    /\ bridges[i].port = bridges[o].port
                    /\ bridges[i].port \in Ports[pair.dest]
           /\ rdma = UNION {At(Ingress(pair, 0)) \union At(Egress(pair, 0)) : pair \in WantedPairs}
           /\ \A b, d \in rdma :
                 /\ bridges[b].kind = "rx" /\ bridges[d].kind = "rx"
                 /\ bridges[b].proxy = bridges[d].proxy
                 /\ bridges[b].port = bridges[d].port
                 => b = d

Quiescent == /\ queue = <<>> /\ evt = None /\ applyq = <<>> /\ work.pc = "idle"
             /\ \A c \in Conns : ccall[c] \notin Waiting

CurrentConfig(p) ==
    [groups  |-> GroupConfigs(proxies[p].conns, proxies[p].bridges),
     bridges |-> {b \in proxies[p].bridges : Valid(b)}]

\* Once the agent has nothing left to do, the last configuration sent to each
\* proxy that started its command queue is what the registries say now, even
\* though the worker reads the registries piece by piece while the event
\* processor changes them.  Left out are changes after which the agent tells
\* nobody: a connection registered through a proxy that has not started its
\* command queue, and a call that timed out.
ConfigCurrent ==
    Quiescent /\ ~ missed =>
        \A p \in DOMAIN proxies : proxies[p].active => sent[p] = CurrentConfig(p)

\* A receiving connection that joins a group with a compatible payload and
\* without a source is not refused (CheckIfGroupAcceptsConnectionKind).
FirstSourceAccepted ==
    \A c \in Conns :
        evt # None /\ evt.conn = c /\ ctx.incompatible
            => \/ ~ PayloadCompatible(evt.group, req[c].cfg)
               \/ \E x \in groups[evt.group].conns : conns[x].kind = "rx"
               \/ \E b \in groups[evt.group].bridges : bridges[b].kind = "rx"

\* Between two events an application that sends to an ST2110 group is
\* connected to the proxy that has the bridge to the network
\* (registry-add-bridge-st2110 runs for the first connection of a group only).
EgressAtSender ==
    BetweenEvents =>
        \A c \in DOMAIN conns :
            conns[c].kind = "rx" /\ conns[c].cfg.type = "st2110" =>
                \E b \in DOMAIN bridges : /\ bridges[b].type = "st2110"
                                          /\ bridges[b].group = conns[c].group
                                          /\ bridges[b].proxy = conns[c].proxy

====
