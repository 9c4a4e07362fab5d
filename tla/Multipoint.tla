----------------------------- MODULE Multipoint -----------------------------
(***************************************************************************)
(* Multipoint groups on the data plane: media-proxy/src/mesh/multipoint.cc *)
(* and the linking code of conn.cc, manager_multipoint.cc, manager_local.cc*)
(* and manager_bridges.cc.                                                 *)
(*                                                                         *)
(* Every receiver has a hot-path thread that takes each frame through its  *)
(* link (transmit) to the group (Group::on_receive) and on to the outputs. *)
(* Control threads link, unlink and delete connections and groups, one at  *)
(* a time: they hold the local manager's mutex.  Both sides meet in two    *)
(* kinds of DataplaneAtomicPtr, a connection's "dp_link" and a group's     *)
(* "outputs_ptr", used here as GracePeriodPtr promises: a store takes      *)
(* effect at once and returns when the critical section it found is over.  *)
(*                                                                         *)
(* A control operation is the list of the state changes its code makes, in *)
(* order; the hot paths run between any two of them.                       *)
(***************************************************************************)
EXTENDS Naturals, Sequences

CONSTANTS Receivers,     \* connections that feed a group: its input
          Transmitters,  \* connections that a group feeds: its outputs
          Groups,
          Bridges,       \* the connections made and deleted by the config
          Null

ASSUME MultipointAssumption ==
    /\ Bridges \subseteq Receivers \cup Transmitters
    /\ Receivers \cap Transmitters = {}
    /\ (Receivers \cup Transmitters) \cap Groups = {}
    /\ Null \notin Receivers \cup Transmitters \cup Groups

Conns   == Receivers \cup Transmitters
Objects == Conns \cup Groups

VARIABLES
    alive,    \* the objects that are allocated
    dying,    \* connections out of the registries, on their way to "delete"
    link,     \* link[x]: dp_link of a connection or a group
    outputs,  \* outputs[g]: Group::outputs, the control threads' list
    hotlist,  \* hotlist[g]: the copy in outputs_ptr; a null pointer is empty
    active,   \* groups in State::active
    member,   \* member[c]: the group of c in the config, or Null
    todo,     \* what the thread holding the mutex has still to do
    waiting,  \* the hot-path sections its store_wait() waits for
    hpc,      \* hpc[r]: where the hot path of receiver r is
    hlink,    \* hlink[r]: the link that r's load_next_lock() returned
    hout      \* hout[r]: the outputs r has still to serve

objects == <<alive, dying, link, outputs, hotlist, active>>
control == <<alive, dying, link, outputs, hotlist, active, member, todo>>
hot     == <<hpc, hlink, hout>>
vars    == <<alive, dying, link, outputs, hotlist, active, member, todo,
             waiting, hpc, hlink, hout>>

\* A list of outputs tells how often each transmitter is on it; its order is of
\* no consequence.
Lists     == [Transmitters -> Nat]
NoOutputs == [c \in Transmitters |-> 0]

\* Critical sections: of the link, and of the outputs inside it.
InLink(r)    == hpc[r] # "idle"
InOutputs(r) == hpc[r] = "sending"

Init ==
    /\ alive = {} /\ dying = {}
    /\ link = [x \in Objects |-> Null]
    /\ outputs = [g \in Groups |-> NoOutputs]
    /\ hotlist = [g \in Groups |-> NoOutputs]
    /\ active = {}
    /\ member = [c \in Conns |-> Null]
    /\ todo = <<>> /\ waiting = {}
    /\ hpc = [r \in Receivers |-> "idle"]
    /\ hlink = [r \in Receivers |-> Null]
    /\ hout = [r \in Receivers |-> NoOutputs]
-----------------------------------------------------------------------------
\* The state changes that control operations are made of.
SetLink(x, v)        == <<"link", x, v>>
AddOutput(g, c)      == <<"add", g, c>>
EraseOutput(g, c)    == <<"erase", g, c>>
ClearOutputs(g)      == <<"clear", g, Null>>
SetHotOutputs(g)     == <<"hot", g, Null>>
ResetHotOutputs(g)   == <<"reset", g, Null>>
SetState(g)          == <<"state", g, Null>>
Retire(c)            == <<"retire", c, Null>>
DeleteBridges(g, bs) == <<"bridges", g, bs>>
Free(g)              == <<"free", g, Null>>

\* Mutant: add_output() without set_hotpath_outputs().
AssociateCold(g, c) ==
    IF c \in Receivers
    THEN <<SetLink(g, c), SetLink(c, g)>>
    ELSE <<SetLink(c, g), AddOutput(g, c)>>

\* GroupManager::associate with Group::assign_input and Group::add_output.
Associate(g, c) ==
    IF c \in Receivers
    THEN <<SetLink(g, c), SetLink(c, g)>>
    ELSE <<SetLink(c, g), AddOutput(g, c), SetHotOutputs(g)>>

\* Mutant: the output is taken off the control list only.
GroupUnlinkCold(g, c) ==
    IF link[g] = c
    THEN <<SetLink(g, Null)>>
    ELSE <<EraseOutput(g, c)>>

\* Group::set_link(ctx, nullptr, requester).
GroupUnlink(g, c) ==
    IF link[g] = c
    THEN <<SetLink(g, Null)>>
    ELSE <<EraseOutput(g, c), SetHotOutputs(g)>>

\* Mutant: the connection keeps its own link.
UnlinkKeepsLink(c) ==
    IF link[c] = Null THEN <<>> ELSE GroupUnlink(link[c], c)

\* Unlinking a connection: the same lines in reconcile_config(),
\* delete_connection_sdk() and delete_bridge().
Unlink(c) ==
    IF link[c] = Null THEN <<>>
    ELSE GroupUnlink(link[c], c) \o <<SetLink(c, Null)>>

\* Unlinking a connection and taking it out of its registry.
Delete(c) == Append(Unlink(c), Retire(c))

\* Group::on_shutdown, through Connection::shutdown.
GroupShutdown(g) ==
    <<SetState(g), SetLink(g, Null), ClearOutputs(g), ResetHotOutputs(g)>>

\* reconcile_config(), deletion of a whole group with its bridges.
DeleteGroupSteps(g, bridges) ==
    LET input == IF link[g] = Null THEN <<>>
                 ELSE <<SetLink(link[g], Null), SetLink(g, Null)>>
    IN  input \o GroupShutdown(g) \o <<ClearOutputs(g), DeleteBridges(g, bridges), Free(g)>>
-----------------------------------------------------------------------------
Idle == todo = <<>> /\ waiting = {}

Members(g) == {c \in Conns : member[c] = g}

\* reconcile_config(): a new group, configured, established and registered.
AddGroup(g) ==
    /\ Idle /\ g \notin alive
    /\ alive' = alive \cup {g}
    /\ active' = active \cup {g}
    /\ link' = [link EXCEPT ![g] = Null]
    /\ outputs' = [outputs EXCEPT ![g] = NoOutputs]
    /\ hotlist' = [hotlist EXCEPT ![g] = NoOutputs]
    /\ UNCHANGED <<dying, member, todo, waiting, hot>>

\* A connection is created: create_connection_sdk() or create_bridge().
AddConn(c) ==
    /\ Idle /\ c \notin alive
    /\ alive' = alive \cup {c}
    /\ link' = [link EXCEPT ![c] = Null]
    /\ UNCHANGED <<dying, outputs, hotlist, active, member, todo, waiting, hot>>

\* reconcile_config(): a connection or bridge of the new config joins its
\* group.  The agent admits one input to a group.
LinkConn(g, c) ==
    /\ Idle
    /\ {g, c} \subseteq alive /\ c \notin dying /\ member[c] = Null
    /\ c \in Receivers => Members(g) \cap Receivers = {}
    /\ member' = [member EXCEPT ![c] = g]
    /\ todo' = Associate(g, c)
    /\ UNCHANGED <<objects, waiting, hot>>

\* reconcile_config(): a local connection leaves its group and lives on.
UnlinkConn(c) ==
    /\ Idle
    /\ c \in alive \ (dying \cup Bridges) /\ member[c] # Null
    /\ member' = [member EXCEPT ![c] = Null]
    /\ todo' = Unlink(c)
    /\ UNCHANGED <<objects, waiting, hot>>

\* delete_connection_sdk() or delete_bridge().
DeleteConn(c) ==
    /\ Idle
    /\ c \in alive \ dying
    /\ member' = [member EXCEPT ![c] = Null]
    /\ todo' = Delete(c)
    /\ UNCHANGED <<objects, waiting, hot>>

\* reconcile_config(): the config no longer has the group.  The agent leaves a
\* group out once its last local connection is gone (proxy-config.go).
DeleteGroup(g) ==
    /\ Idle /\ g \in alive
    /\ Members(g) \subseteq Bridges
    /\ member' = [c \in Conns |-> IF member[c] = g THEN Null ELSE member[c]]
    /\ todo' = DeleteGroupSteps(g, Members(g))
    /\ UNCHANGED <<objects, waiting, hot>>
-----------------------------------------------------------------------------
\* The critical sections that the store_wait() of a step finds open.
\* set_link() does not store a link that is already there.
SectionsFound(op, x, v) ==
    CASE op = "link" /\ link[x] # v ->
           {<<"link", r>> : r \in {y \in Receivers \cap {x} : InLink(y)}}
      [] op \in {"hot", "reset"} ->
           {<<"outputs", r>> : r \in {y \in Receivers : InOutputs(y) /\ hlink[y] = x}}
      [] OTHER -> {}

\* Group::outputs of x after a step.  erase() removes the first entry it finds.
NewOutputs(op, x, v) ==
    CASE op = "add"   -> [outputs[x] EXCEPT ![v] = @ + 1]
      [] op = "erase" -> [outputs[x] EXCEPT ![v] = IF @ = 0 THEN 0 ELSE @ - 1]
      [] op = "clear" -> NoOutputs
      [] OTHER        -> outputs[x]

\* The copy that outputs_ptr holds after a step.
NewHotList(op, x) ==
    CASE op = "hot"   -> outputs[x]
      [] op = "reset" -> NoOutputs
      [] OTHER        -> hotlist[x]

\* One state change, to object x.
Step(op, x, v) ==
    /\ link' = IF op = "link" THEN [link EXCEPT ![x] = v] ELSE link
    /\ outputs' = IF op \in {"add", "erase", "clear"}
                  THEN [outputs EXCEPT ![x] = NewOutputs(op, x, v)] ELSE outputs
    /\ hotlist' = IF op \in {"hot", "reset"}
                  THEN [hotlist EXCEPT ![x] = NewHotList(op, x)] ELSE hotlist
    /\ active' = IF op = "state" THEN active \ {x} ELSE active
    /\ dying' = IF op = "retire" THEN dying \cup {x} ELSE dying
    /\ alive' = IF op = "free" THEN alive \ {x} ELSE alive
    /\ waiting' = SectionsFound(op, x, v)

\* The next state change of the operation under way.
Execute ==
    /\ todo # <<>> /\ waiting = {} /\ Head(todo)[1] # "bridges"
    /\ Step(Head(todo)[1], Head(todo)[2], Head(todo)[3])
    /\ todo' = Tail(todo)
    /\ UNCHANGED <<member, hot>>

\* The loop over the bridges of a deleted group: delete_bridge() for the next
\* one, in any order, or the end of the loop.  The group has no outputs by now,
\* and its input has been unlinked.
NextBridge ==
    /\ todo # <<>> /\ waiting = {} /\ Head(todo)[1] = "bridges"
    /\ LET g       == Head(todo)[2]
           bridges == Head(todo)[3]
       IN  \/ bridges = {} /\ todo' = Tail(todo)
           \/ \E b \in bridges :
                  todo' = Delete(b) \o <<DeleteBridges(g, bridges \ {b})>> \o Tail(todo)
    /\ UNCHANGED <<objects, member, waiting, hot>>

\* The end of a deletion, outside the mutex: shutdown() stops the hot path of
\* a receiver and joins its thread, then the object is deleted.
DestroyConn(c) ==
    /\ c \in dying
    /\ c \in Receivers => hpc[c] = "idle"
    /\ alive' = alive \ {c}
    /\ dying' = dying \ {c}
    /\ UNCHANGED <<link, outputs, hotlist, active, member, todo, waiting, hot>>
-----------------------------------------------------------------------------
\* transmit() of a frame: enters the critical section of the link.
Transmit(r) ==
    /\ r \in alive \ dying
    /\ hpc[r] = "idle"
    /\ link[r] # Null
    /\ hlink' = [hlink EXCEPT ![r] = link[r]]
    /\ hpc' = [hpc EXCEPT ![r] = "linked"]
    /\ UNCHANGED <<control, waiting, hout>>

\* dp_link.unlock(): a set_link() that waits for r goes on.
LinkUnlock(r) ==
    /\ hpc' = [hpc EXCEPT ![r] = "idle"]
    /\ hlink' = [hlink EXCEPT ![r] = Null]
    /\ waiting' = waiting \ {<<"link", r>>}

\* Group::on_receive, the checks: the group is active and has an input.
GroupOnReceive(r) ==
    /\ hpc[r] = "linked"
    /\ IF hlink[r] \in active /\ link[hlink[r]] # Null
       THEN /\ hpc' = [hpc EXCEPT ![r] = "checked"]
            /\ UNCHANGED <<hlink, waiting>>
       ELSE LinkUnlock(r)
    /\ UNCHANGED <<control, hout>>

\* get_hotpath_outputs_lock(): enters the critical section of the outputs.
\* An empty list is left to OutputsUnlock.
GetOutputsLock(r) ==
    /\ hpc[r] = "checked"
    /\ hpc' = [hpc EXCEPT ![r] = "sending"]
    /\ hout' = [hout EXCEPT ![r] = hotlist[hlink[r]]]
    /\ UNCHANGED <<control, waiting, hlink>>

\* do_receive() on the next output of the list.
DoReceive(r) ==
    /\ hpc[r] = "sending"
    /\ \E c \in Transmitters :
           /\ hout[r][c] > 0
           /\ hout' = [hout EXCEPT ![r][c] = @ - 1]
    /\ UNCHANGED <<control, waiting, hpc, hlink>>

\* Mutant: on_receive() returns without hotpath_outputs_unlock().
OutputsUnlockMissing(r) ==
    /\ hpc[r] = "sending" /\ hout[r] = NoOutputs
    /\ hpc' = [hpc EXCEPT ![r] = "served"]
    /\ UNCHANGED <<control, waiting, hlink, hout>>

\* hotpath_outputs_unlock(): a set_hotpath_outputs() that waits for r goes on.
OutputsUnlock(r) ==
    /\ hpc[r] = "sending" /\ hout[r] = NoOutputs
    /\ hpc' = [hpc EXCEPT ![r] = "served"]
    /\ waiting' = waiting \ {<<"outputs", r>>}
    /\ UNCHANGED <<control, hlink, hout>>

\* The end of transmit().
TransmitDone(r) ==
    /\ hpc[r] = "served"
    /\ LinkUnlock(r)
    /\ UNCHANGED <<control, hout>>

HotPath(r) ==
    \/ GroupOnReceive(r)
    \/ GetOutputsLock(r)
    \/ DoReceive(r)
    \/ OutputsUnlock(r)
    \/ TransmitDone(r)

Control ==
    \/ \E g \in Groups : AddGroup(g) \/ DeleteGroup(g)
    \/ \E c \in Conns : AddConn(c) \/ UnlinkConn(c) \/ DeleteConn(c) \/ DestroyConn(c)
    \/ \E g \in Groups, c \in Conns : LinkConn(g, c)
    \/ Execute
    \/ NextBridge

Next == Control \/ \E r \in Receivers : Transmit(r) \/ HotPath(r)

Spec == Init /\ [][Next]_vars

\* A frame that entered a section is served, and the thread that holds the
\* mutex keeps running.
Fairness == WF_vars(Execute \/ NextBridge) /\ \A r \in Receivers : WF_vars(HotPath(r))

FairSpec == Spec /\ Fairness
-----------------------------------------------------------------------------
\* Every variable holds a value the code can give it.
TypeOK ==
    /\ alive \subseteq Objects
    /\ dying \subseteq Conns
    /\ link \in [Objects -> Objects \cup {Null}]
    /\ outputs \in [Groups -> Lists] /\ hotlist \in [Groups -> Lists]
    /\ active \subseteq Groups
    /\ member \in [Conns -> Groups \cup {Null}]
    /\ waiting \subseteq {"link", "outputs"} \X Receivers
    /\ hpc \in [Receivers -> {"idle", "linked", "checked", "sending", "served"}]
    /\ hlink \in [Receivers -> Groups \cup {Null}]
    /\ hout \in [Receivers -> Lists]

\* A frame on its way never meets a deleted object: the receiver and the group
\* of every open section, and every output still to be served, are allocated.
\* Nor does it walk a deleted list: set_hotpath_outputs() deletes the old list
\* when its store returns, and a hot path still walking a list that was
\* replaced is one the store waits for.
NoUseAfterFree ==
    \A r \in Receivers :
        /\ InLink(r) => {r, hlink[r]} \subseteq alive
        /\ \A c \in Transmitters : InLink(r) /\ hout[r][c] > 0 => c \in alive
        /\ InOutputs(r) /\ <<"outputs", r>> \notin waiting =>
               \A c \in Transmitters : hout[r][c] <= hotlist[hlink[r]][c]

\* "The hotpath access must be used in only one thread" (sync.h): no two
\* receivers are inside the outputs section of one group.
OneHotThread ==
    \A r, s \in Receivers :
        InOutputs(r) /\ InOutputs(s) /\ hlink[r] = hlink[s] => r = s

\* Between operations the two directions of every link agree, the hot copy is
\* the control list, and nothing refers to a deleted object; at all times the
\* variables keep their types.
LinksAgree ==
    /\ TypeOK
    /\ Idle =>
        /\ \A c \in Conns \cap alive : link[c] = member[c]
        /\ \A r \in Receivers, g \in Groups \cap alive :
               link[g] = r <=> r \in alive /\ link[r] = g
        /\ \A g \in Groups \cap alive :
               /\ hotlist[g] = outputs[g]
               /\ \A c \in Transmitters :
                      outputs[g][c] = IF c \in alive /\ link[c] = g THEN 1 ELSE 0

\* Every control operation ends, whatever the traffic: store_wait() is never
\* starved by frames that keep coming.
ControlCompletes == (~Idle) ~> Idle
=============================================================================
