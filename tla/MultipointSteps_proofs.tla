----------------------- MODULE MultipointSteps_proofs -----------------------
(***************************************************************************)
(* The inductive invariant of Multipoint, and the lemmas about the steps   *)
(* of linking and unlinking a connection and of the hot paths.  The rest   *)
(* of the proof and the theorems are in Multipoint_proofs.                 *)
(*                                                                         *)
(* The invariant has a part about the objects and the hot paths that holds *)
(* at all times (TypeInv, Live, HotInv), and one that says for each list   *)
(* of steps still to do how far the links, the lists of outputs and the    *)
(* config have come apart (Phase).  Facts that almost every later step of  *)
(* a lemma needs are unnamed steps.  A leaf without arithmetic and         *)
(* functional updates names Zenon, which is much the faster of the two     *)
(* provers on these.                                                       *)
(***************************************************************************)
EXTENDS Multipoint, TLAPS

\* The connections that may be linked.
Usable == (Conns \cap alive) \ dying

\* The types, with what a connection and what a group is linked to.
TypeInv ==
    /\ TypeOK
    /\ \A c \in Conns : link[c] \in Groups \cup {Null}
    /\ \A g \in Groups : link[g] \in Receivers \cup {Null}

\* Nothing refers to a deleted object, and no two receivers feed one group.
Live ==
    /\ dying \subseteq alive
    /\ \A c \in Conns : link[c] # Null => c \in Usable /\ link[c] \in alive
    /\ \A c \in Conns : member[c] # Null => c \in Usable /\ member[c] \in alive
    /\ \A g \in Groups, c \in Transmitters : hotlist[g][c] > 0 => c \in Usable
    /\ \A r, s \in Receivers : link[r] = link[s] /\ link[r] # Null => r = s

\* The frame that receiver r has under way.
FrameInv(r) ==
    /\ InLink(r) => r \in alive /\ hlink[r] \in Groups \cap alive
    /\ InLink(r) => link[r] = hlink[r] \/ <<"link", r>> \in waiting
    /\ ~InOutputs(r) => hout[r] = NoOutputs
    /\ \A c \in Transmitters : hout[r][c] > 0 => c \in Usable
    /\ InOutputs(r) /\ <<"outputs", r>> \notin waiting =>
           \A c \in Transmitters : hout[r][c] <= hotlist[hlink[r]][c]
    /\ <<"link", r>> \in waiting =>
           InLink(r) /\ \A s \in Receivers : link[s] # hlink[r]

HotInv ==
    /\ \A r \in Receivers : FrameInv(r)
    /\ \A r, s \in Receivers : InLink(r) /\ InLink(s) /\ hlink[r] = hlink[s] => r = s

\* A group and its members agree: on the input, on the outputs, and the hot
\* copy of the outputs is the control list.
Listed(g, c) == IF link[c] = g THEN 1 ELSE 0
InputOk(g)   == \A r \in Receivers : link[g] = r <=> link[r] = g
OutputsOk(g) == \A c \in Transmitters : outputs[g][c] = Listed(g, c)
HotOk(g)     == hotlist[g] = outputs[g]
GroupOk(g)   == InputOk(g) /\ OutputsOk(g) /\ HotOk(g)

\* ... except for the groups, or the connections, of S.
GroupsOk(S) == \A g \in Groups \ S : GroupOk(g)
ConnsOk(S)  == \A c \in Conns \ S : link[c] = member[c]

\* No receiver but those of S is linked to g.
NoSource(g, S) == \A r \in Receivers \ S : link[r] # g

\* The control list of g is right but does not have c.
OutputsBut(g, c) ==
    /\ outputs[g][c] = 0
    /\ \A d \in Transmitters \ {c} : outputs[g][d] = Listed(g, d)

\* Between operations.
Settled == todo = <<>> /\ ConnsOk({}) /\ GroupsOk({})

\* LinkConn(g, c) under way: for a receiver, before and after the first step.
Joining(g, c) == g \in alive /\ c \in Usable /\ member[c] = g /\ ConnsOk({c})

LinkRx1(g, c) ==
    /\ todo = <<SetLink(g, c), SetLink(c, g)>> /\ c \in Receivers
    /\ Joining(g, c) /\ link[c] = Null /\ link[g] = Null /\ GroupsOk({})

LinkRx2(g, c) ==
    /\ todo = <<SetLink(c, g)>> /\ c \in Receivers
    /\ Joining(g, c) /\ link[c] = Null /\ link[g] = c /\ GroupsOk({g})
    /\ NoSource(g, {}) /\ OutputsOk(g) /\ HotOk(g)

\* ... for a transmitter.
LinkTx1(g, c) ==
    /\ todo = <<SetLink(c, g), AddOutput(g, c), SetHotOutputs(g)>> /\ c \in Transmitters
    /\ Joining(g, c) /\ link[c] = Null /\ GroupsOk({})

LinkTx2(g, c) ==
    /\ todo = <<AddOutput(g, c), SetHotOutputs(g)>> /\ c \in Transmitters
    /\ Joining(g, c) /\ link[c] = g /\ GroupsOk({g}) /\ InputOk(g) /\ OutputsBut(g, c)

LinkTx3(g, c) ==
    /\ todo = <<SetHotOutputs(g)>> /\ c \in Transmitters
    /\ Joining(g, c) /\ link[c] = g /\ GroupsOk({g}) /\ InputOk(g) /\ OutputsOk(g)

\* UnlinkConn(c) or DeleteConn(c) under way, c being linked to g: a receiver.
Leaving(g, c) ==
    g \in alive /\ c \in Usable /\ member[c] = Null /\ link[c] = g /\ ConnsOk({c})

UnlinkRx1(g, c) ==
    /\ \/ todo = <<SetLink(g, Null), SetLink(c, Null)>>
       \/ todo = <<SetLink(g, Null), SetLink(c, Null), Retire(c)>>
    /\ c \in Receivers /\ Leaving(g, c) /\ GroupsOk({})

UnlinkRx2(g, c) ==
    /\ \/ todo = <<SetLink(c, Null)>>
       \/ todo = <<SetLink(c, Null), Retire(c)>>
    /\ c \in Receivers /\ Leaving(g, c) /\ GroupsOk({g})
    /\ link[g] = Null /\ NoSource(g, {c}) /\ OutputsOk(g) /\ HotOk(g)

\* ... a transmitter.
UnlinkTx1(g, c) ==
    /\ \/ todo = <<EraseOutput(g, c), SetHotOutputs(g), SetLink(c, Null)>>
       \/ todo = <<EraseOutput(g, c), SetHotOutputs(g), SetLink(c, Null), Retire(c)>>
    /\ c \in Transmitters /\ Leaving(g, c) /\ GroupsOk({})

UnlinkTx2(g, c) ==
    /\ \/ todo = <<SetHotOutputs(g), SetLink(c, Null)>>
       \/ todo = <<SetHotOutputs(g), SetLink(c, Null), Retire(c)>>
    /\ c \in Transmitters /\ Leaving(g, c) /\ GroupsOk({g})
    /\ InputOk(g) /\ OutputsBut(g, c)

UnlinkTx3(g, c) ==
    /\ \/ todo = <<SetLink(c, Null)>>
       \/ todo = <<SetLink(c, Null), Retire(c)>>
    /\ c \in Transmitters /\ Leaving(g, c) /\ GroupsOk({g})
    /\ InputOk(g) /\ OutputsBut(g, c) /\ HotOk(g)

\* DeleteConn(c) about to take c out of its registry.
Retiring(c) ==
    /\ todo = <<Retire(c)>>
    /\ c \in Usable /\ member[c] = Null /\ ConnsOk({}) /\ GroupsOk({})

\* DeleteGroup(g) under way: the config no longer has g; the connections of S
\* were its members and have not been deleted yet.
Dropped(g, S) ==
    /\ g \in alive /\ S \subseteq Usable
    /\ \A d \in S : member[d] = Null /\ link[d] \in {g, Null}
    /\ \A d \in Conns : member[d] # g
    /\ ConnsOk(S)

\* ... and its input has been unlinked.
Cut(g, S) == Dropped(g, S) /\ GroupsOk({g}) /\ link[g] = Null /\ NoSource(g, {})

\* ... and so have its outputs, on the group's side.
Bare(g, S) == Cut(g, S) /\ outputs[g] = NoOutputs /\ hotlist[g] = NoOutputs

\* The steps of DeleteGroup(g), in order: the input is unlinked,
DropInput1(g, S, r) ==
    /\ todo = <<SetLink(r, Null), SetLink(g, Null), SetState(g), SetLink(g, Null),
                ClearOutputs(g), ResetHotOutputs(g), ClearOutputs(g),
                DeleteBridges(g, S), Free(g)>>
    /\ Dropped(g, S) /\ link[g] = r /\ GroupsOk({})

DropInput2(g, S) ==
    /\ todo = <<SetLink(g, Null), SetState(g), SetLink(g, Null),
                ClearOutputs(g), ResetHotOutputs(g), ClearOutputs(g),
                DeleteBridges(g, S), Free(g)>>
    /\ Dropped(g, S) /\ GroupsOk({g}) /\ NoSource(g, {})

\* the group is shut down,
Close1(g, S) ==
    /\ todo = <<SetState(g), SetLink(g, Null), ClearOutputs(g), ResetHotOutputs(g),
                ClearOutputs(g), DeleteBridges(g, S), Free(g)>>
    /\ Cut(g, S)

Close2(g, S) ==
    /\ todo = <<SetLink(g, Null), ClearOutputs(g), ResetHotOutputs(g),
                ClearOutputs(g), DeleteBridges(g, S), Free(g)>>
    /\ Cut(g, S)

Close3(g, S) ==
    /\ todo = <<ClearOutputs(g), ResetHotOutputs(g),
                ClearOutputs(g), DeleteBridges(g, S), Free(g)>>
    /\ Cut(g, S)

Close4(g, S) ==
    /\ todo = <<ResetHotOutputs(g), ClearOutputs(g), DeleteBridges(g, S), Free(g)>>
    /\ Cut(g, S) /\ outputs[g] = NoOutputs

Close5(g, S) ==
    /\ todo = <<ClearOutputs(g), DeleteBridges(g, S), Free(g)>>
    /\ Bare(g, S)

\* the bridges are deleted one by one, b being the current one,
Loop(g, S) == todo = <<DeleteBridges(g, S), Free(g)>> /\ Bare(g, S)

Bridge1(g, S, b) ==
    /\ todo = <<EraseOutput(g, b), SetHotOutputs(g), SetLink(b, Null),
                Retire(b), DeleteBridges(g, S \ {b}), Free(g)>>
    /\ Bare(g, S) /\ b \in Transmitters

Bridge2(g, S, b) ==
    /\ todo = <<SetHotOutputs(g), SetLink(b, Null),
                Retire(b), DeleteBridges(g, S \ {b}), Free(g)>>
    /\ Bare(g, S) /\ b \in Transmitters

Bridge3(g, S, b) ==
    /\ todo = <<SetLink(b, Null), Retire(b), DeleteBridges(g, S \ {b}), Free(g)>>
    /\ Bare(g, S) /\ b \in Transmitters

Bridge4(g, S, b) ==
    /\ todo = <<Retire(b), DeleteBridges(g, S \ {b}), Free(g)>>
    /\ Bare(g, S) /\ link[b] = Null

\* and the group is deleted.
Freeing(g) == todo = <<Free(g)>> /\ Bare(g, {})

Linking(g, c) ==
    \/ LinkRx1(g, c) \/ LinkRx2(g, c)
    \/ LinkTx1(g, c) \/ LinkTx2(g, c) \/ LinkTx3(g, c)

Unlinking(g, c) ==
    \/ UnlinkRx1(g, c) \/ UnlinkRx2(g, c)
    \/ UnlinkTx1(g, c) \/ UnlinkTx2(g, c) \/ UnlinkTx3(g, c)

Closing(g, S) ==
    \/ \E r \in Receivers : DropInput1(g, S, r)
    \/ DropInput2(g, S)
    \/ Close1(g, S) \/ Close2(g, S) \/ Close3(g, S) \/ Close4(g, S) \/ Close5(g, S)

Emptying(g, S) ==
    \/ Loop(g, S)
    \/ \E b \in S : Bridge1(g, S, b) \/ Bridge2(g, S, b) \/ Bridge3(g, S, b) \/ Bridge4(g, S, b)

Phase ==
    \/ Settled
    \/ \E g \in Groups, c \in Conns : Linking(g, c)
    \/ \E g \in Groups, c \in Conns : Unlinking(g, c)
    \/ \E c \in Conns : Retiring(c)
    \/ \E g \in Groups, S \in SUBSET Conns : Closing(g, S)
    \/ \E g \in Groups, S \in SUBSET Conns : Emptying(g, S)
    \/ \E g \in Groups : Freeing(g)

\* The inductive invariant.
IInv == TypeInv /\ Live /\ HotInv /\ Phase
-----------------------------------------------------------------------------
(* What the steps of an operation do.                                      *)

\* The part of the invariant that holds at all times.
Always == TypeInv /\ Live /\ HotInv

\* What the step at the head of the list does to the state.
LEMMA StepDone ==
  ASSUME NEW op, NEW x, NEW v, Head(todo) = <<op, x, v>>, Execute
  PROVE  /\ Step(op, x, v) /\ waiting = {} /\ todo' = Tail(todo)
         /\ UNCHANGED <<member, hot>>
  <1>1. Head(todo)[1] = op /\ Head(todo)[2] = x /\ Head(todo)[3] = v
    OBVIOUS
  <1> QED BY <1>1, Zenon DEF Execute

\* SetLink on a group: no connection is linked to a group's link.
LEMMA LinkGroupStep ==
  ASSUME Always, NEW g \in Groups, NEW v \in Receivers \cup {Null},
         todo # <<>>, Head(todo) = SetLink(g, v), Execute
  PROVE  /\ Always'
         /\ link' = [link EXCEPT ![g] = v] /\ todo' = Tail(todo) /\ waiting' = {}
         /\ UNCHANGED <<alive, dying, outputs, hotlist, active, member, hot>>
  <1>   /\ link' = [link EXCEPT ![g] = v] /\ todo' = Tail(todo)
        /\ UNCHANGED <<alive, dying, outputs, hotlist, active, member, hot>>
        /\ waiting' = SectionsFound("link", g, v)
    BY StepDone, Zenon DEF Step, SetLink
  <1>   waiting = {} /\ waiting' = {}
    BY StepDone, MultipointAssumption DEF SetLink, SectionsFound, Conns
  <1>   \A c \in Conns : link'[c] = link[c]
    BY MultipointAssumption DEF Conns, Objects, Always, TypeInv, TypeOK
  <1>4. TypeInv'
    BY MultipointAssumption, Zenon DEF Always, TypeInv, TypeOK, Objects, Conns, hot
  <1>5. Live'
    BY DEF Always, Live, Usable, Conns
  <1>6. HotInv'
    BY Zenon DEF Always, HotInv, FrameInv, InLink, InOutputs, hot, Usable, Conns
  <1> QED BY <1>4, <1>5, <1>6, Zenon DEF Always

\* SetLink on a connection: to nothing, or, of an unlinked connection, to a
\* group that has no input yet if the connection is a receiver.
LEMMA LinkConnStep ==
  ASSUME Always, NEW c \in Conns, NEW v \in Groups \cup {Null},
         todo # <<>>, Head(todo) = SetLink(c, v), Execute,
         v = Null \/ /\ link[c] = Null /\ c \in Usable /\ v \in alive
                     /\ c \in Receivers => NoSource(v, {})
  PROVE  /\ Always'
         /\ link' = [link EXCEPT ![c] = v] /\ todo' = Tail(todo)
         /\ UNCHANGED <<alive, dying, outputs, hotlist, active, member, hot>>
  <1>   /\ link' = [link EXCEPT ![c] = v] /\ todo' = Tail(todo)
        /\ UNCHANGED <<alive, dying, outputs, hotlist, active, member, hot>>
        /\ waiting' = SectionsFound("link", c, v) /\ waiting = {}
    BY StepDone, Zenon DEF Step, SetLink
  <1>   /\ \A x \in Objects : link'[x] = IF x = c THEN v ELSE link[x]
        /\ Conns \subseteq Objects /\ Receivers \subseteq Conns
    BY Zenon DEF Objects, Conns, Always, TypeInv, TypeOK
  <1>   waiting' = IF link[c] # v /\ c \in Receivers /\ InLink(c)
                   THEN {<<"link", c>>} ELSE {}
    <2>1. CASE link[c] # v
      BY <2>1, Zenon DEF SectionsFound
    <2>2. CASE link[c] = v
      BY <2>2, Zenon DEF SectionsFound
    <2> QED BY <2>1, <2>2, Zenon
  <1>4. TypeInv'
    <2>1. link' \in [Objects -> Objects \cup {Null}]
      BY Zenon DEF Objects, Always, TypeInv, TypeOK
    <2>2. waiting' \subseteq {"link", "outputs"} \X Receivers
      OBVIOUS
    <2>3. /\ \A d \in Conns : link'[d] \in Groups \cup {Null}
          /\ \A g \in Groups : link'[g] \in Receivers \cup {Null}
      BY MultipointAssumption DEF Objects, Conns, Always, TypeInv
    <2> QED BY <2>1, <2>2, <2>3, Zenon DEF Always, TypeInv, TypeOK, hot
  <1>5. Live'
    <2>1. Usable' = Usable
      BY Zenon DEF Usable
    <2>2. \A d \in Conns : link'[d] # Null => d \in Usable /\ link'[d] \in alive
      BY Zenon DEF Always, Live
    <2>3. ASSUME NEW r \in Receivers, NEW s \in Receivers,
                 link'[r] = link'[s], link'[r] # Null
          PROVE  r = s
      BY <2>3 DEF Always, Live, NoSource
    <2> QED BY <2>1, <2>2, <2>3, Zenon DEF Always, Live
  <1>6. HotInv'
    <2>1. ASSUME NEW r \in Receivers
          PROVE  FrameInv(r)'
      <3>1. /\ InLink(r)' = InLink(r) /\ InOutputs(r)' = InOutputs(r)
            /\ hlink' = hlink /\ hout' = hout /\ hotlist' = hotlist /\ alive' = alive
            /\ Usable' = Usable
        BY Zenon DEF InLink, InOutputs, hot, Usable
      <3>2. <<"outputs", r>> \notin waiting' /\ <<"outputs", r>> \notin waiting
        BY Zenon
      <3>3. InLink(r) => link[r] = hlink[r]
        BY Zenon DEF Always, HotInv, FrameInv
      <3>4. InLink(r) => link'[r] = hlink[r] \/ <<"link", r>> \in waiting'
        BY <3>3, Zenon
      <3>5. ASSUME <<"link", r>> \in waiting'
            PROVE  InLink(r) /\ \A s \in Receivers : link'[s] # hlink[r]
        <4>1. r = c /\ link[c] # v /\ InLink(c)
          BY <3>5
        <4>2. hlink[r] = link[r] /\ link[r] # Null
          <5>1. hlink[r] = link[r] /\ hlink[r] \in Groups
            BY <3>3, <4>1, Zenon DEF Always, HotInv, FrameInv
          <5> QED BY <5>1, MultipointAssumption, Zenon
        <4>3. \A s \in Receivers \ {r} : link[s] # link[r]
          BY <4>2, Zenon DEF Always, Live
        <4> QED BY <4>1, <4>2, <4>3, Zenon
      <3>6. /\ InLink(r) => r \in alive /\ hlink[r] \in Groups \cap alive
            /\ ~InOutputs(r) => hout[r] = NoOutputs
            /\ \A d \in Transmitters : hout[r][d] > 0 => d \in Usable
            /\ InOutputs(r) => \A d \in Transmitters : hout[r][d] <= hotlist[hlink[r]][d]
        BY <3>2, Zenon DEF Always, HotInv, FrameInv
      <3> HIDE DEF InLink, InOutputs, Usable
      <3> QED BY <3>1, <3>4, <3>5, <3>6, Zenon DEF FrameInv
    <2>2. \A r, s \in Receivers :
             InLink(r)' /\ InLink(s)' /\ hlink'[r] = hlink'[s] => r = s
      BY Zenon DEF Always, HotInv, InLink, hot
    <2> QED BY <2>1, <2>2, Zenon DEF HotInv
  <1> QED BY <1>4, <1>5, <1>6, Zenon DEF Always

\* A change of a group's control list.
LEMMA OutputsStep ==
  ASSUME Always, NEW g \in Groups, NEW op \in {"add", "erase", "clear"}, NEW v,
         v \in Transmitters \/ op = "clear",
         todo # <<>>, Head(todo) = <<op, g, v>>, Execute
  PROVE  /\ Always'
         /\ outputs' = [outputs EXCEPT ![g] = NewOutputs(op, g, v)]
         /\ NewOutputs(op, g, v) \in Lists
         /\ todo' = Tail(todo) /\ waiting' = {}
         /\ UNCHANGED <<alive, dying, link, hotlist, active, member, hot>>
  <1>   /\ outputs' = [outputs EXCEPT ![g] = NewOutputs(op, g, v)]
        /\ todo' = Tail(todo)
        /\ UNCHANGED <<alive, dying, link, hotlist, active, member, hot>>
        /\ waiting' = SectionsFound(op, g, v) /\ waiting = {}
    BY StepDone, Zenon DEF Step
  <1>   waiting' = {}
    BY Zenon DEF SectionsFound
  <1>3. NewOutputs(op, g, v) \in Lists
    <2>1. outputs[g] \in Lists
      BY Zenon DEF Always, TypeInv, TypeOK
    <2>2. CASE op = "add"
      BY <2>1, <2>2 DEF NewOutputs, Lists
    <2>3. CASE op = "erase"
      BY <2>1, <2>3 DEF NewOutputs, Lists
    <2>4. CASE op = "clear"
      BY <2>4, Zenon DEF NewOutputs, Lists, NoOutputs
    <2> QED BY <2>2, <2>3, <2>4, Zenon
  <1>4. TypeInv'
    BY <1>3, Zenon DEF Always, TypeInv, TypeOK, hot
  <1>5. Live'
    BY Zenon DEF Always, Live, Usable
  <1>6. HotInv'
    BY Zenon DEF Always, HotInv, FrameInv, InLink, InOutputs, hot, Usable
  <1> QED BY <1>3, <1>4, <1>5, <1>6, Zenon DEF Always

\* A change of a group's hot copy, to a list of usable connections.
LEMMA HotStep ==
  ASSUME Always, NEW g \in Groups, NEW op \in {"hot", "reset"},
         todo # <<>>, Head(todo) = <<op, g, Null>>, Execute,
         \A c \in Transmitters : NewHotList(op, g)[c] > 0 => c \in Usable
  PROVE  /\ Always'
         /\ hotlist' = [hotlist EXCEPT ![g] = NewHotList(op, g)]
         /\ todo' = Tail(todo)
         /\ UNCHANGED <<alive, dying, link, outputs, active, member, hot>>
  <1>   /\ hotlist' = [hotlist EXCEPT ![g] = NewHotList(op, g)]
        /\ todo' = Tail(todo)
        /\ UNCHANGED <<alive, dying, link, outputs, active, member, hot>>
        /\ waiting' = SectionsFound(op, g, Null) /\ waiting = {}
    BY StepDone, Zenon DEF Step
  <1>   waiting' = {<<"outputs", r>> : r \in {y \in Receivers : InOutputs(y) /\ hlink[y] = g}}
    BY Zenon DEF SectionsFound
  <1>3. NewHotList(op, g) \in Lists
    <2>1. outputs[g] \in Lists
      BY Zenon DEF Always, TypeInv, TypeOK
    <2> QED BY <2>1, Zenon DEF NewHotList, Lists, NoOutputs
  <1>4. TypeInv'
    BY <1>3 DEF Always, TypeInv, TypeOK, hot
  <1>5. Live'
    BY Zenon DEF Always, Live, Usable, TypeInv, TypeOK
  <1>6. HotInv'
    <2>1. ASSUME NEW r \in Receivers
          PROVE  FrameInv(r)'
      <3>1. /\ InLink(r)' = InLink(r) /\ InOutputs(r)' = InOutputs(r)
            /\ hlink' = hlink /\ hout' = hout /\ link' = link /\ alive' = alive
            /\ Usable' = Usable
        BY Zenon DEF InLink, InOutputs, hot, Usable
      <3>2. <<"link", r>> \notin waiting' /\ <<"link", r>> \notin waiting
        BY Zenon
      <3>3. /\ InLink(r) => r \in alive /\ hlink[r] \in Groups \cap alive
            /\ InLink(r) => link[r] = hlink[r]
            /\ ~InOutputs(r) => hout[r] = NoOutputs
            /\ \A d \in Transmitters : hout[r][d] > 0 => d \in Usable
        BY Zenon DEF Always, HotInv, FrameInv
      <3>4. InOutputs(r) /\ <<"outputs", r>> \notin waiting' =>
                \A d \in Transmitters : hout[r][d] <= hotlist'[hlink[r]][d]
        <4>1. SUFFICES ASSUME InOutputs(r), hlink[r] # g
                       PROVE  \A d \in Transmitters : hout[r][d] <= hotlist'[hlink[r]][d]
          BY Zenon
        <4>2. \A d \in Transmitters : hout[r][d] <= hotlist[hlink[r]][d]
          BY <4>1, Zenon DEF Always, HotInv, FrameInv
        <4>3. hlink[r] \in Groups
          BY <3>3, <4>1, Zenon DEF InLink, InOutputs
        <4> QED BY <4>1, <4>2, <4>3, Zenon DEF Always, TypeInv, TypeOK
      <3> HIDE DEF InLink, InOutputs, Usable
      <3> QED BY <3>1, <3>2, <3>3, <3>4, Zenon DEF FrameInv
    <2>2. \A r, s \in Receivers :
             InLink(r)' /\ InLink(s)' /\ hlink'[r] = hlink'[s] => r = s
      BY Zenon DEF Always, HotInv, InLink, hot
    <2> QED BY <2>1, <2>2, Zenon DEF HotInv
  <1> QED BY <1>4, <1>5, <1>6, Zenon DEF Always

\* A connection that nothing refers to leaves its registry.
LEMMA RetireStep ==
  ASSUME Always, NEW c \in Conns, c \in alive,
         todo # <<>>, Head(todo) = Retire(c), Execute,
         link[c] = Null, member[c] = Null,
         \A g \in Groups : c \in Transmitters => hotlist[g][c] = 0
  PROVE  /\ Always'
         /\ dying' = dying \cup {c} /\ todo' = Tail(todo) /\ waiting' = {}
         /\ UNCHANGED <<alive, link, outputs, hotlist, active, member, hot>>
  <1>   /\ dying' = dying \cup {c} /\ todo' = Tail(todo)
        /\ UNCHANGED <<alive, link, outputs, hotlist, active, member, hot>>
        /\ waiting' = SectionsFound("retire", c, Null) /\ waiting = {}
    BY StepDone, Zenon DEF Step, Retire
  <1>   waiting' = {}
    BY Zenon DEF SectionsFound
  <1>3. Usable' = Usable \ {c}
    BY Zenon DEF Usable
  <1>4. TypeInv'
    BY Zenon DEF Always, TypeInv, TypeOK, hot
  <1>5. Live'
    <2>1. \A g \in Groups, d \in Transmitters : hotlist[g][d] > 0 => d \in Usable \ {c}
      BY DEF Always, Live
    <2> QED BY <1>3, <2>1, Zenon DEF Always, Live
  <1>6. HotInv'
    <2>1. ASSUME NEW r \in Receivers
          PROVE  FrameInv(r)'
      <3>1. /\ InLink(r)' = InLink(r) /\ InOutputs(r)' = InOutputs(r)
            /\ hlink' = hlink /\ hout' = hout /\ link' = link /\ alive' = alive
            /\ hotlist' = hotlist
        BY Zenon DEF InLink, InOutputs, hot
      <3>2. \A d \in Transmitters : hout[r][d] > 0 => d \in Usable \ {c}
        <4>1. SUFFICES ASSUME c \in Transmitters
                       PROVE  ~(hout[r][c] > 0)
          BY Zenon DEF Always, HotInv, FrameInv
        <4>2. CASE InOutputs(r)
          <5>1. hout[r][c] <= hotlist[hlink[r]][c] /\ hlink[r] \in Groups
            BY <4>1, <4>2, Zenon DEF Always, HotInv, FrameInv, InLink, InOutputs
          <5>2. hout[r][c] \in Nat /\ hotlist[hlink[r]][c] = 0
            BY <4>1, <5>1, Zenon DEF Always, TypeInv, TypeOK, Lists
          <5> QED BY <5>1, <5>2
        <4>3. CASE ~InOutputs(r)
          <5>1. hout[r] = NoOutputs
            BY <4>3, Zenon DEF Always, HotInv, FrameInv
          <5> QED BY <4>1, <5>1 DEF NoOutputs
        <4> QED BY <4>2, <4>3, Zenon
      <3> QED BY <1>3, <3>1, <3>2, Zenon DEF Always, HotInv, FrameInv
    <2>2. \A r, s \in Receivers :
             InLink(r)' /\ InLink(s)' /\ hlink'[r] = hlink'[s] => r = s
      BY Zenon DEF Always, HotInv, InLink, hot
    <2> QED BY <2>1, <2>2, Zenon DEF HotInv
  <1> QED BY <1>4, <1>5, <1>6, Zenon DEF Always

\* A group leaves State::active.
LEMMA StateStep ==
  ASSUME Always, NEW g \in Groups, todo # <<>>, Head(todo) = SetState(g), Execute
  PROVE  /\ Always'
         /\ todo' = Tail(todo) /\ waiting' = {}
         /\ UNCHANGED <<alive, dying, link, outputs, hotlist, member, hot>>
  <1>   /\ active' = active \ {g} /\ todo' = Tail(todo)
        /\ UNCHANGED <<alive, dying, link, outputs, hotlist, member, hot>>
        /\ waiting' = SectionsFound("state", g, Null) /\ waiting = {}
    BY StepDone, Zenon DEF Step, SetState
  <1>   waiting' = {}
    BY Zenon DEF SectionsFound
  <1>3. TypeInv'
    BY Zenon DEF Always, TypeInv, TypeOK, hot
  <1>4. Live'
    BY Zenon DEF Always, Live, Usable
  <1>5. HotInv'
    BY Zenon DEF Always, HotInv, FrameInv, InLink, InOutputs, hot, Usable
  <1> QED BY <1>3, <1>4, <1>5, Zenon DEF Always

\* A group that nothing is linked to is deleted.
LEMMA FreeStep ==
  ASSUME Always, NEW g \in Groups, todo # <<>>, Head(todo) = Free(g), Execute,
         \A c \in Conns : link[c] # g /\ member[c] # g
  PROVE  /\ Always'
         /\ todo' = Tail(todo)
         /\ UNCHANGED <<dying, link, outputs, hotlist, member, hot>>
  <1>   /\ alive' = alive \ {g} /\ todo' = Tail(todo)
        /\ UNCHANGED <<dying, link, outputs, hotlist, active, member, hot>>
        /\ waiting' = SectionsFound("free", g, Null) /\ waiting = {}
    BY StepDone, Zenon DEF Step, Free
  <1>   waiting' = {}
    BY Zenon DEF SectionsFound
  <1>3. Usable' = Usable
    BY MultipointAssumption, Zenon DEF Usable, Conns
  <1>4. TypeInv'
    BY Zenon DEF Always, TypeInv, TypeOK, hot
  <1>5. Live'
    <2>1. dying' \subseteq alive'
      BY MultipointAssumption, Zenon DEF Always, Live, TypeInv, TypeOK, Conns
    <2> QED BY <1>3, <2>1, Zenon DEF Always, Live
  <1>6. HotInv'
    <2>1. ASSUME NEW r \in Receivers, InLink(r)
          PROVE  r \in alive' /\ hlink[r] \in Groups \cap alive'
      <3>1. hlink[r] = link[r] /\ hlink[r] \in Groups \cap alive /\ r \in alive
        BY <2>1, Zenon DEF Always, HotInv, FrameInv
      <3> QED BY <3>1, MultipointAssumption, Zenon DEF Conns
    <2>2. \A r \in Receivers : InLink(r)' = InLink(r) /\ InOutputs(r)' = InOutputs(r)
      BY Zenon DEF InLink, InOutputs, hot
    <2>3. hlink' = hlink /\ hout' = hout
      BY Zenon DEF hot
    <2> QED BY <1>3, <2>1, <2>2, <2>3, Zenon DEF Always, HotInv, FrameInv
  <1> QED BY <1>4, <1>5, <1>6, Zenon DEF Always
-----------------------------------------------------------------------------
(* How the phases follow each other.                                       *)

\* A group whose links and lists a step leaves alone still agrees.
LEMMA GroupKept ==
  ASSUME NEW h \in Groups, GroupOk(h), link'[h] = link[h],
         \A d \in Conns : link'[d] = h <=> link[d] = h,
         outputs'[h] = outputs[h], hotlist'[h] = hotlist[h]
  PROVE  GroupOk(h)'
  <1>1. InputOk(h)'
    BY Zenon DEF GroupOk, InputOk, Conns
  <1>2. OutputsOk(h)' /\ HotOk(h)'
    BY Zenon DEF GroupOk, OutputsOk, HotOk, Listed, Conns
  <1> QED BY <1>1, <1>2, Zenon DEF GroupOk

\* The group takes the receiver as its input.
LEMMA LinkRx1Step ==
  ASSUME Always, NEW g \in Groups, NEW c \in Conns, LinkRx1(g, c), Execute
  PROVE  Always' /\ LinkRx2(g, c)'
  <1>1. Head(todo) = SetLink(g, c) /\ Tail(todo) = <<SetLink(c, g)>> /\ todo # <<>>
    BY DEF LinkRx1
  <1>2. c \in Receivers
    BY Zenon DEF LinkRx1
  <1>   /\ Always'
        /\ link' = [link EXCEPT ![g] = c] /\ todo' = Tail(todo)
        /\ UNCHANGED <<alive, dying, outputs, hotlist, active, member, hot>>
    BY <1>1, <1>2, LinkGroupStep, Zenon
  <1>   \A x \in Objects : link'[x] = IF x = g THEN c ELSE link[x]
    BY Zenon DEF Always, TypeInv, TypeOK
  <1>   \A d \in Conns : link'[d] = link[d]
    BY MultipointAssumption DEF Objects, Conns
  <1>6. NoSource(g, {}) /\ OutputsOk(g) /\ HotOk(g)
    BY MultipointAssumption DEF LinkRx1, NoSource, GroupsOk, GroupOk, InputOk
  <1>7. (NoSource(g, {}) /\ OutputsOk(g) /\ HotOk(g))'
    BY <1>6, Zenon DEF NoSource, OutputsOk, HotOk, Listed, Conns
  <1>8. GroupsOk({g})'
    <2>1. \A h \in Groups \ {g} : link'[h] = link[h]
      BY Zenon DEF Objects
    <2> QED BY <2>1 DEF LinkRx1, GroupsOk, GroupOk, InputOk, OutputsOk, HotOk, Listed, Conns
  <1>9. Joining(g, c)' /\ link'[c] = Null /\ link'[g] = c
    BY Zenon DEF LinkRx1, Joining, ConnsOk, Usable, Objects
  <1> QED BY <1>1, <1>2, <1>7, <1>8, <1>9, Zenon DEF LinkRx2, SetLink

\* The receiver takes the group as its output: the link is made.
LEMMA LinkRx2Step ==
  ASSUME Always, NEW g \in Groups, NEW c \in Conns, LinkRx2(g, c), Execute
  PROVE  Always' /\ Settled'
  <1>1. Head(todo) = SetLink(c, g) /\ Tail(todo) = <<>> /\ todo # <<>>
    BY DEF LinkRx2
  <1>   /\ Always'
        /\ link' = [link EXCEPT ![c] = g] /\ todo' = Tail(todo)
        /\ UNCHANGED <<alive, dying, outputs, hotlist, active, member, hot>>
    BY <1>1, LinkConnStep, Zenon DEF LinkRx2, Joining
  <1>   /\ \A x \in Objects : link'[x] = IF x = c THEN g ELSE link[x]
        /\ \A x \in Conns : x \in Objects
        /\ \A x \in Groups : x \in Objects /\ x # c
        /\ \A x \in Receivers : x \in Conns
        /\ \A x \in Transmitters : x \in Conns /\ x # c
    BY MultipointAssumption DEF Always, TypeInv, TypeOK, Objects, Conns, LinkRx2
  <1>4. ConnsOk({})'
    BY Zenon DEF LinkRx2, Joining, ConnsOk
  <1>5. ASSUME NEW h \in Groups, h # g
        PROVE  GroupOk(h)'
    BY <1>5, GroupKept, MultipointAssumption DEF LinkRx2, GroupsOk
  <1>6. GroupOk(g)'
    <2>1. InputOk(g)'
      BY Zenon DEF LinkRx2, NoSource, InputOk
    <2>2. OutputsOk(g)' /\ HotOk(g)'
      BY DEF LinkRx2, OutputsOk, Listed, HotOk
    <2> QED BY <2>1, <2>2, Zenon DEF GroupOk
  <1> QED BY <1>1, <1>4, <1>5, <1>6, Zenon DEF Settled, GroupsOk

\* The transmitter takes the group as its input.
LEMMA LinkTx1Step ==
  ASSUME Always, NEW g \in Groups, NEW c \in Conns, LinkTx1(g, c), Execute
  PROVE  Always' /\ LinkTx2(g, c)'
  <1>1. /\ Head(todo) = SetLink(c, g) /\ todo # <<>>
        /\ Tail(todo) = <<AddOutput(g, c), SetHotOutputs(g)>>
    BY DEF LinkTx1
  <1>2. c \notin Receivers
    BY MultipointAssumption, Zenon DEF LinkTx1
  <1>   /\ Always'
        /\ link' = [link EXCEPT ![c] = g] /\ todo' = Tail(todo)
        /\ UNCHANGED <<alive, dying, outputs, hotlist, active, member, hot>>
    BY <1>1, <1>2, LinkConnStep, Zenon DEF LinkTx1, Joining
  <1>   /\ \A x \in Objects : link'[x] = IF x = c THEN g ELSE link[x]
        /\ \A x \in Conns : x \in Objects
        /\ \A x \in Groups : x \in Objects /\ x # c
        /\ \A x \in Receivers : x \in Conns /\ x # c
        /\ \A x \in Transmitters : x \in Conns
    BY <1>2, MultipointAssumption DEF Always, TypeInv, TypeOK, Objects, Conns
  <1>5. Joining(g, c)' /\ link'[c] = g
    BY Zenon DEF LinkTx1, Joining, ConnsOk, Usable
  <1>6. ASSUME NEW h \in Groups, h # g
        PROVE  GroupOk(h)'
    BY <1>6, GroupKept, MultipointAssumption, Zenon DEF LinkTx1, GroupsOk
  <1>7. InputOk(g)'
    BY DEF LinkTx1, GroupsOk, GroupOk, InputOk
  <1>8. OutputsBut(g, c)'
    BY MultipointAssumption DEF LinkTx1, GroupsOk, GroupOk, OutputsOk, Listed, OutputsBut
  <1> QED BY <1>1, <1>5, <1>6, <1>7, <1>8, Zenon
          DEF LinkTx1, LinkTx2, GroupsOk, AddOutput, SetHotOutputs

\* The group lists the transmitter.
LEMMA LinkTx2Step ==
  ASSUME Always, NEW g \in Groups, NEW c \in Conns, LinkTx2(g, c), Execute
  PROVE  Always' /\ LinkTx3(g, c)'
  <1>   /\ Head(todo) = <<"add", g, c>> /\ todo # <<>>
        /\ Tail(todo) = <<SetHotOutputs(g)>> /\ c \in Transmitters
    BY DEF LinkTx2, AddOutput
  <1>   /\ Always'
        /\ outputs' = [outputs EXCEPT ![g] = NewOutputs("add", g, c)]
        /\ todo' = Tail(todo)
        /\ UNCHANGED <<alive, dying, link, hotlist, active, member, hot>>
    BY OutputsStep, Zenon
  <1>3. /\ outputs'[g] = [outputs[g] EXCEPT ![c] = @ + 1] /\ outputs[g] \in Lists
        /\ \A h \in Groups \ {g} : outputs'[h] = outputs[h]
    BY Zenon DEF NewOutputs, Always, TypeInv, TypeOK
  <1>4. OutputsOk(g)'
    BY <1>3 DEF LinkTx2, OutputsBut, OutputsOk, Listed, Lists
  <1>5. Joining(g, c)' /\ link'[c] = g /\ InputOk(g)'
    BY Zenon DEF LinkTx2, Joining, ConnsOk, Usable, InputOk
  <1>6. GroupsOk({g})'
    BY <1>3, GroupKept, Zenon DEF LinkTx2, GroupsOk
  <1> QED BY <1>4, <1>5, <1>6, Zenon DEF LinkTx3, SetHotOutputs

\* The hot copy is set from the list: the link is made.
LEMMA LinkTx3Step ==
  ASSUME Always, NEW g \in Groups, NEW c \in Conns, LinkTx3(g, c), Execute
  PROVE  Always' /\ Settled'
  <1>1. Head(todo) = <<"hot", g, Null>> /\ todo # <<>> /\ Tail(todo) = <<>>
    BY DEF LinkTx3, SetHotOutputs
  <1>2. NewHotList("hot", g) = outputs[g]
    BY Zenon DEF NewHotList
  <1>3. \A d \in Transmitters : outputs[g][d] > 0 => d \in Usable
    BY MultipointAssumption DEF LinkTx3, OutputsOk, Listed, Always, Live, Conns
  <1>   /\ Always'
        /\ hotlist' = [hotlist EXCEPT ![g] = outputs[g]]
        /\ todo' = Tail(todo)
        /\ UNCHANGED <<alive, dying, link, outputs, active, member, hot>>
    BY <1>1, <1>2, <1>3, HotStep, Zenon
  <1>5. /\ hotlist'[g] = outputs[g]
        /\ \A h \in Groups \ {g} : hotlist'[h] = hotlist[h]
    BY Zenon DEF Always, TypeInv, TypeOK
  <1>6. ConnsOk({})'
    BY Zenon DEF LinkTx3, Joining, ConnsOk
  <1>7. GroupsOk({g})'
    BY <1>5, GroupKept, Zenon DEF LinkTx3, GroupsOk
  <1>8. GroupOk(g)'
    BY <1>5, Zenon DEF LinkTx3, GroupOk, InputOk, OutputsOk, HotOk, Listed
  <1> QED BY <1>1, <1>6, <1>7, <1>8, Zenon DEF Settled, GroupsOk

\* The receiver loses its group, and no frame of it is inside the group.
LEMMA UnlinkRx1Step ==
  ASSUME Always, NEW g \in Groups, NEW c \in Conns, UnlinkRx1(g, c), Execute
  PROVE  Always' /\ UnlinkRx2(g, c)'
  <1>1. /\ Head(todo) = SetLink(g, Null) /\ todo # <<>>
        /\ \/ Tail(todo) = <<SetLink(c, Null)>>
           \/ Tail(todo) = <<SetLink(c, Null), Retire(c)>>
    <2>1. CASE todo = <<SetLink(g, Null), SetLink(c, Null)>>
      BY <2>1 DEF UnlinkRx1
    <2>2. CASE todo = <<SetLink(g, Null), SetLink(c, Null), Retire(c)>>
      BY <2>2 DEF UnlinkRx1
    <2> QED BY <2>1, <2>2, Zenon DEF UnlinkRx1
  <1>   /\ Always'
        /\ link' = [link EXCEPT ![g] = Null] /\ todo' = Tail(todo)
        /\ UNCHANGED <<alive, dying, outputs, hotlist, active, member, hot>>
    BY <1>1, LinkGroupStep, Zenon
  <1>   \A x \in Objects : link'[x] = IF x = g THEN Null ELSE link[x]
    BY Zenon DEF Always, TypeInv, TypeOK
  <1>   \A d \in Conns : link'[d] = link[d]
    BY MultipointAssumption DEF Objects, Conns
  <1>5. NoSource(g, {c}) /\ OutputsOk(g) /\ HotOk(g)
    BY DEF UnlinkRx1, Leaving, NoSource, GroupsOk, GroupOk, InputOk
  <1>6. (NoSource(g, {c}) /\ OutputsOk(g) /\ HotOk(g))'
    BY <1>5, Zenon DEF NoSource, OutputsOk, HotOk, Listed, Conns
  <1>7. GroupsOk({g})'
    <2>1. \A h \in Groups \ {g} : link'[h] = link[h]
      BY Zenon DEF Objects
    <2> QED BY <2>1, GroupKept, Zenon DEF UnlinkRx1, GroupsOk
  <1>8. Leaving(g, c)' /\ link'[g] = Null
    BY Zenon DEF UnlinkRx1, Leaving, ConnsOk, Usable, Objects
  <1> QED BY <1>1, <1>6, <1>7, <1>8, Zenon DEF UnlinkRx1, UnlinkRx2, SetLink, Retire

\* What is left when c no longer has its link.
LEMMA LinkGone ==
  ASSUME Always, NEW c \in Conns, Always', todo' = Tail(todo),
         c \in Usable, member[c] = Null,
         link' = [link EXCEPT ![c] = Null], ConnsOk({c}), GroupsOk({})',
         Tail(todo) = <<>> \/ Tail(todo) = <<Retire(c)>>,
         UNCHANGED <<alive, dying, member>>
  PROVE  Settled' \/ Retiring(c)'
  <1>1. \A d \in Conns : link'[d] = IF d = c THEN Null ELSE link[d]
    BY Zenon DEF Always, TypeInv, TypeOK, Objects
  <1>2. ConnsOk({})'
    BY <1>1, Zenon DEF ConnsOk
  <1>3. c \in Usable' /\ member'[c] = Null
    BY Zenon DEF Usable
  <1> QED BY <1>2, <1>3, Zenon DEF Settled, Retiring, Retire

\* The group loses its input: the link is undone.
LEMMA UnlinkRx2Step ==
  ASSUME Always, NEW g \in Groups, NEW c \in Conns, UnlinkRx2(g, c), Execute
  PROVE  Always' /\ (Settled' \/ Retiring(c)')
  <1>1. /\ Head(todo) = SetLink(c, Null) /\ todo # <<>>
        /\ Tail(todo) = <<>> \/ Tail(todo) = <<Retire(c)>>
    <2>1. CASE todo = <<SetLink(c, Null)>>
      BY <2>1 DEF UnlinkRx2
    <2>2. CASE todo = <<SetLink(c, Null), Retire(c)>>
      BY <2>2 DEF UnlinkRx2
    <2> QED BY <2>1, <2>2, Zenon DEF UnlinkRx2
  <1>   /\ Always'
        /\ link' = [link EXCEPT ![c] = Null] /\ todo' = Tail(todo)
        /\ UNCHANGED <<alive, dying, outputs, hotlist, active, member, hot>>
    BY <1>1, LinkConnStep, Zenon
  <1>   /\ \A x \in Objects : link'[x] = IF x = c THEN Null ELSE link[x]
        /\ \A x \in Conns : x \in Objects
        /\ \A x \in Groups : x \in Objects /\ x # c /\ x # Null
        /\ \A x \in Receivers : x \in Conns /\ x # Null
        /\ \A x \in Transmitters : x \in Conns /\ x # c
    BY MultipointAssumption DEF Always, TypeInv, TypeOK, Objects, Conns, UnlinkRx2
  <1>4. ASSUME NEW h \in Groups, h # g
        PROVE  GroupOk(h)'
    BY <1>4, GroupKept, Zenon DEF UnlinkRx2, Leaving, GroupsOk
  <1>5. GroupOk(g)'
    <2>1. InputOk(g)'
      BY Zenon DEF UnlinkRx2, NoSource, InputOk
    <2>2. OutputsOk(g)' /\ HotOk(g)'
      BY DEF UnlinkRx2, OutputsOk, Listed, HotOk
    <2> QED BY <2>1, <2>2, Zenon DEF GroupOk
  <1>6. GroupsOk({})'
    BY <1>4, <1>5, Zenon DEF GroupsOk
  <1> QED BY <1>1, <1>6, LinkGone, Zenon DEF UnlinkRx2, Leaving

\* The group erases the transmitter from its list.
LEMMA UnlinkTx1Step ==
  ASSUME Always, NEW g \in Groups, NEW c \in Conns, UnlinkTx1(g, c), Execute
  PROVE  Always' /\ UnlinkTx2(g, c)'
  <1>   /\ Head(todo) = <<"erase", g, c>> /\ todo # <<>> /\ c \in Transmitters
        /\ \/ Tail(todo) = <<SetHotOutputs(g), SetLink(c, Null)>>
           \/ Tail(todo) = <<SetHotOutputs(g), SetLink(c, Null), Retire(c)>>
    <2>1. CASE todo = <<EraseOutput(g, c), SetHotOutputs(g), SetLink(c, Null)>>
      BY <2>1 DEF UnlinkTx1, EraseOutput
    <2>2. CASE todo = <<EraseOutput(g, c), SetHotOutputs(g), SetLink(c, Null), Retire(c)>>
      BY <2>2 DEF UnlinkTx1, EraseOutput
    <2> QED BY <2>1, <2>2, Zenon DEF UnlinkTx1
  <1>   /\ Always'
        /\ outputs' = [outputs EXCEPT ![g] = NewOutputs("erase", g, c)]
        /\ todo' = Tail(todo)
        /\ UNCHANGED <<alive, dying, link, hotlist, active, member, hot>>
    BY OutputsStep, Zenon
  <1>3. /\ outputs'[g] = [outputs[g] EXCEPT ![c] = IF @ = 0 THEN 0 ELSE @ - 1]
        /\ outputs[g] \in Lists
        /\ \A h \in Groups \ {g} : outputs'[h] = outputs[h]
    BY Zenon DEF NewOutputs, Always, TypeInv, TypeOK
  <1>4. OutputsOk(g) /\ InputOk(g) /\ link[c] = g
    BY Zenon DEF UnlinkTx1, GroupsOk, GroupOk, Leaving
  <1>5. OutputsBut(g, c)'
    BY <1>3, <1>4 DEF OutputsBut, OutputsOk, Listed, Lists
  <1>6. Leaving(g, c)' /\ InputOk(g)'
    BY <1>4, Zenon DEF UnlinkTx1, Leaving, ConnsOk, Usable, InputOk
  <1>7. GroupsOk({g})'
    BY <1>3, GroupKept, Zenon DEF UnlinkTx1, GroupsOk
  <1> QED BY <1>5, <1>6, <1>7, Zenon DEF UnlinkTx2, SetHotOutputs, SetLink, Retire

\* The hot copy is set without the transmitter.
LEMMA UnlinkTx2Step ==
  ASSUME Always, NEW g \in Groups, NEW c \in Conns, UnlinkTx2(g, c), Execute
  PROVE  Always' /\ UnlinkTx3(g, c)'
  <1>1. /\ Head(todo) = <<"hot", g, Null>> /\ todo # <<>> /\ c \in Transmitters
        /\ \/ Tail(todo) = <<SetLink(c, Null)>>
           \/ Tail(todo) = <<SetLink(c, Null), Retire(c)>>
    <2>1. CASE todo = <<SetHotOutputs(g), SetLink(c, Null)>>
      BY <2>1 DEF UnlinkTx2, SetHotOutputs
    <2>2. CASE todo = <<SetHotOutputs(g), SetLink(c, Null), Retire(c)>>
      BY <2>2 DEF UnlinkTx2, SetHotOutputs
    <2> QED BY <2>1, <2>2, Zenon DEF UnlinkTx2
  <1>2. NewHotList("hot", g) = outputs[g]
    BY Zenon DEF NewHotList
  <1>3. \A d \in Transmitters : outputs[g][d] > 0 => d \in Usable
    BY MultipointAssumption DEF UnlinkTx2, OutputsBut, Listed, Always, Live, Conns
  <1>   /\ Always'
        /\ hotlist' = [hotlist EXCEPT ![g] = outputs[g]]
        /\ todo' = Tail(todo)
        /\ UNCHANGED <<alive, dying, link, outputs, active, member, hot>>
    BY <1>1, <1>2, <1>3, HotStep, Zenon
  <1>5. /\ hotlist'[g] = outputs[g]
        /\ \A h \in Groups \ {g} : hotlist'[h] = hotlist[h]
    BY Zenon DEF Always, TypeInv, TypeOK
  <1>6. Leaving(g, c)' /\ InputOk(g)' /\ OutputsBut(g, c)' /\ HotOk(g)'
    BY <1>5, Zenon DEF UnlinkTx2, Leaving, ConnsOk, Usable, InputOk, OutputsBut, Listed, HotOk
  <1>7. GroupsOk({g})'
    BY <1>5, GroupKept, Zenon DEF UnlinkTx2, GroupsOk
  <1> QED BY <1>1, <1>6, <1>7, Zenon DEF UnlinkTx3, SetLink, Retire

\* The transmitter loses its group: the link is undone.
LEMMA UnlinkTx3Step ==
  ASSUME Always, NEW g \in Groups, NEW c \in Conns, UnlinkTx3(g, c), Execute
  PROVE  Always' /\ (Settled' \/ Retiring(c)')
  <1>1. /\ Head(todo) = SetLink(c, Null) /\ todo # <<>>
        /\ Tail(todo) = <<>> \/ Tail(todo) = <<Retire(c)>>
    <2>1. CASE todo = <<SetLink(c, Null)>>
      BY <2>1 DEF UnlinkTx3
    <2>2. CASE todo = <<SetLink(c, Null), Retire(c)>>
      BY <2>2 DEF UnlinkTx3
    <2> QED BY <2>1, <2>2, Zenon DEF UnlinkTx3
  <1>   /\ Always'
        /\ link' = [link EXCEPT ![c] = Null] /\ todo' = Tail(todo)
        /\ UNCHANGED <<alive, dying, outputs, hotlist, active, member, hot>>
    BY <1>1, LinkConnStep, Zenon
  <1>   /\ \A x \in Objects : link'[x] = IF x = c THEN Null ELSE link[x]
        /\ \A x \in Conns : x \in Objects
        /\ \A x \in Groups : x \in Objects /\ x # c /\ x # Null
        /\ \A x \in Receivers : x \in Conns /\ x # c
        /\ \A x \in Transmitters : x \in Conns
    BY MultipointAssumption DEF Always, TypeInv, TypeOK, Objects, Conns, UnlinkTx3
  <1>4. ASSUME NEW h \in Groups, h # g
        PROVE  GroupOk(h)'
    BY <1>4, GroupKept, Zenon DEF UnlinkTx3, Leaving, GroupsOk
  <1>5. GroupOk(g)'
    <2>1. InputOk(g)'
      BY DEF UnlinkTx3, InputOk
    <2>2. OutputsOk(g)' /\ HotOk(g)'
      BY DEF UnlinkTx3, OutputsOk, OutputsBut, Listed, HotOk
    <2> QED BY <2>1, <2>2, Zenon DEF GroupOk
  <1>6. GroupsOk({})'
    BY <1>4, <1>5, Zenon DEF GroupsOk
  <1> QED BY <1>1, <1>6, LinkGone, Zenon DEF UnlinkTx3, Leaving

\* A connection without links leaves the registry.
LEMMA RetiringStep ==
  ASSUME Always, NEW c \in Conns, Retiring(c), Execute
  PROVE  Always' /\ Settled'
  <1>1. Head(todo) = Retire(c) /\ Tail(todo) = <<>> /\ todo # <<>>
    BY DEF Retiring
  <1>2. link[c] = Null /\ member[c] = Null /\ c \in alive
    BY Zenon DEF Retiring, ConnsOk, Usable
  <1>3. \A g \in Groups : c \in Transmitters => hotlist[g][c] = 0
    BY <1>2, MultipointAssumption DEF Retiring, GroupsOk, GroupOk, HotOk, OutputsOk, Listed
  <1>4. /\ Always' /\ todo' = Tail(todo)
        /\ UNCHANGED <<alive, link, outputs, hotlist, active, member, hot>>
    BY <1>1, <1>2, <1>3, RetireStep, Zenon
  <1>5. ConnsOk({})' /\ GroupsOk({})'
    BY <1>4, GroupKept, Zenon DEF Retiring, ConnsOk, GroupsOk
  <1> QED BY <1>1, <1>4, <1>5, Zenon DEF Settled

\* LinkConn under way, and UnlinkConn or DeleteConn.
LEMMA LinkingStep ==
  ASSUME Always, NEW g \in Groups, NEW c \in Conns, Linking(g, c), Execute
  PROVE  Always' /\ (Linking(g, c)' \/ Settled')
  BY LinkRx1Step, LinkRx2Step, LinkTx1Step, LinkTx2Step, LinkTx3Step, Zenon DEF Linking

\* UnlinkConn or DeleteConn under way.
LEMMA UnlinkingStep ==
  ASSUME Always, NEW g \in Groups, NEW c \in Conns, Unlinking(g, c), Execute
  PROVE  Always' /\ (Unlinking(g, c)' \/ Settled' \/ Retiring(c)')
  BY UnlinkRx1Step, UnlinkRx2Step, UnlinkTx1Step, UnlinkTx2Step, UnlinkTx3Step, Zenon DEF Unlinking

-----------------------------------------------------------------------------
\* A step that leaves the links, the lists and the usable connections alone
\* leaves the phase alone.
LEMMA PhaseKept ==
  ASSUME Phase, UNCHANGED <<link, outputs, hotlist, member, todo>>, Usable' = Usable,
         \A g \in Groups : g \in alive' <=> g \in alive
  PROVE  Phase'
  <1>   \A S : ConnsOk(S)' = ConnsOk(S)
    BY Zenon DEF ConnsOk
  <1>   \A S : GroupsOk(S)' = GroupsOk(S)
    BY DEF GroupsOk, GroupOk, InputOk, OutputsOk, HotOk, Listed
  <1>   \A g, S : NoSource(g, S)' = NoSource(g, S)
    BY Zenon DEF NoSource
  <1>4. \A g, d : /\ InputOk(g)' = InputOk(g) /\ OutputsOk(g)' = OutputsOk(g)
                  /\ HotOk(g)' = HotOk(g) /\ OutputsBut(g, d)' = OutputsBut(g, d)
    BY DEF InputOk, OutputsOk, HotOk, OutputsBut, Listed
  <1>5. \A g \in Groups : \A d : Joining(g, d)' = Joining(g, d) /\ Leaving(g, d)' = Leaving(g, d)
    BY Zenon DEF Joining, Leaving
  <1>6. \A g \in Groups : \A S : Dropped(g, S)' = Dropped(g, S)
    BY Zenon DEF Dropped
  <1>   \A g \in Groups : \A S : Cut(g, S)' = Cut(g, S) /\ Bare(g, S)' = Bare(g, S)
    BY <1>6, Zenon DEF Cut, Bare, NoOutputs
  <1>8. \A g \in Groups, c \in Conns : Linking(g, c) => Linking(g, c)'
    BY <1>4, <1>5
       DEF Linking, LinkRx1, LinkRx2, LinkTx1, LinkTx2, LinkTx3,
           SetLink, AddOutput, SetHotOutputs
  <1>9. \A g \in Groups, c \in Conns : Unlinking(g, c) => Unlinking(g, c)'
    BY <1>4, <1>5
       DEF Unlinking, UnlinkRx1, UnlinkRx2, UnlinkTx1, UnlinkTx2, UnlinkTx3,
           SetLink, EraseOutput, SetHotOutputs, Retire
  <1>10. \A g \in Groups, S \in SUBSET Conns : Closing(g, S) => Closing(g, S)'
    BY <1>6
       DEF Closing, DropInput1, DropInput2, Close1, Close2, Close3, Close4, Close5,
           SetLink, SetState, ClearOutputs, ResetHotOutputs, DeleteBridges, Free, NoOutputs
  <1>11. \A g \in Groups, S \in SUBSET Conns : Emptying(g, S) => Emptying(g, S)'
    BY
       DEF Emptying, Loop, Bridge1, Bridge2, Bridge3, Bridge4,
           EraseOutput, SetHotOutputs, SetLink, Retire, DeleteBridges, Free
  <1>12. (\A c \in Conns : Retiring(c) => Retiring(c)') /\ (Settled => Settled')
    BY Zenon DEF Settled, Retiring, Retire
  <1>13. \A g \in Groups : Freeing(g) => Freeing(g)'
    BY Zenon DEF Freeing, Free
  <1> QED BY <1>8, <1>9, <1>10, <1>11, <1>12, <1>13, Zenon DEF Phase

-----------------------------------------------------------------------------
(* The hot paths.                                                          *)

\* A step of the hot path of r leaves everything but its own frame alone.
LEMMA FrameStep ==
  ASSUME Always, Phase, NEW r \in Receivers, UNCHANGED control,
         hpc' \in [Receivers -> {"idle", "linked", "checked", "sending", "served"}],
         hlink' \in [Receivers -> Groups \cup {Null}], hout' \in [Receivers -> Lists],
         waiting' \subseteq waiting, FrameInv(r)',
         \A s \in Receivers \ {r} :
            /\ hpc'[s] = hpc[s] /\ hlink'[s] = hlink[s] /\ hout'[s] = hout[s]
            /\ \A k \in {"link", "outputs"} : <<k, s>> \in waiting' <=> <<k, s>> \in waiting,
         \A s \in Receivers \ {r} : InLink(r)' /\ InLink(s) => hlink'[r] # hlink[s]
  PROVE  Always' /\ Phase'
  <1>   /\ UNCHANGED <<alive, dying, link, outputs, hotlist, active, member, todo>>
        /\ Usable' = Usable
    BY Zenon DEF control, Usable
  <1>2. TypeInv'
    BY Zenon DEF Always, TypeInv, TypeOK
  <1>3. Live'
    BY Zenon DEF Always, Live
  <1>4. Phase'
    BY PhaseKept, Zenon
  <1>5. ASSUME NEW s \in Receivers \ {r}
        PROVE  FrameInv(s)'
    <2>1. FrameInv(s) /\ InLink(s)' = InLink(s) /\ InOutputs(s)' = InOutputs(s)
      BY Zenon DEF Always, HotInv, InLink, InOutputs
    <2> HIDE DEF InLink, InOutputs
    <2> QED BY <2>1, Zenon DEF FrameInv, NoOutputs
  <1>6. ASSUME NEW s \in Receivers, NEW t \in Receivers,
               InLink(s)', InLink(t)', hlink'[s] = hlink'[t]
        PROVE  s = t
    <2>1. \A q \in Receivers \ {r} : InLink(q)' = InLink(q)
      BY Zenon DEF InLink
    <2> QED BY <1>6, <2>1, Zenon DEF Always, HotInv
  <1> QED BY <1>2, <1>3, <1>4, <1>5, <1>6, Zenon DEF Always, HotInv

\* A receiver enters its link section: no other frame is in its group.
LEMMA TransmitStep ==
  ASSUME Always, Phase, NEW r \in Receivers, Transmit(r)
  PROVE  Always' /\ Phase'
  <1>   /\ r \in alive /\ hpc[r] = "idle" /\ link[r] # Null
        /\ hlink' = [hlink EXCEPT ![r] = link[r]]
        /\ hpc' = [hpc EXCEPT ![r] = "linked"]
        /\ UNCHANGED <<control, waiting, hout>>
    BY Zenon DEF Transmit
  <1>2. link[r] \in Groups /\ link[r] \in alive
    BY Zenon DEF Always, TypeInv, Live, Conns
  <1>   /\ hpc' \in [Receivers -> {"idle", "linked", "checked", "sending", "served"}]
        /\ hlink' \in [Receivers -> Groups \cup {Null}] /\ hout' \in [Receivers -> Lists]
        /\ hpc'[r] = "linked" /\ hlink'[r] = link[r]
        /\ \A s \in Receivers \ {r} : hpc'[s] = hpc[s] /\ hlink'[s] = hlink[s]
    BY <1>2, Zenon DEF Always, TypeInv, TypeOK
  <1>4. \A s \in Receivers \ {r} : InLink(s) => link[r] # hlink[s]
    <2> SUFFICES ASSUME NEW s \in Receivers \ {r}, InLink(s)
                 PROVE  link[r] # hlink[s]
      OBVIOUS
    <2>1. FrameInv(s)
      BY Zenon DEF Always, HotInv
    <2>2. link[s] = link[r] => FALSE
      BY Zenon DEF Always, Live
    <2>3. link[s] = hlink[s] \/ \A q \in Receivers : link[q] # hlink[s]
      BY <2>1, Zenon DEF FrameInv
    <2> QED BY <2>2, <2>3, Zenon
  <1>5. FrameInv(r)'
    <2>1. FrameInv(r) /\ ~InLink(r) /\ ~InOutputs(r)
      BY Zenon DEF Always, HotInv, InLink, InOutputs
    <2>2. InLink(r)' /\ ~InOutputs(r)'
      BY Zenon DEF InLink, InOutputs
    <2>3. alive' = alive /\ link' = link /\ Usable' = Usable /\ waiting' = waiting /\ hout' = hout
      BY Zenon DEF control, Usable
    <2> HIDE DEF InLink, InOutputs
    <2> QED BY <1>2, <2>1, <2>2, <2>3, Zenon DEF FrameInv, NoOutputs
  <1> QED BY <1>4, <1>5, FrameStep, Zenon

\* The two ways to leave the critical section of the link.
LEMMA LinkUnlockStep ==
  ASSUME Always, Phase, NEW r \in Receivers, ~InOutputs(r),
         LinkUnlock(r), UNCHANGED <<control, hout>>
  PROVE  Always' /\ Phase'
  <1>   /\ hpc' = [hpc EXCEPT ![r] = "idle"] /\ hlink' = [hlink EXCEPT ![r] = Null]
        /\ waiting' = waiting \ {<<"link", r>>}
    BY Zenon DEF LinkUnlock
  <1>2. /\ hpc' \in [Receivers -> {"idle", "linked", "checked", "sending", "served"}]
        /\ hlink' \in [Receivers -> Groups \cup {Null}] /\ hout' \in [Receivers -> Lists]
        /\ hpc'[r] = "idle"
        /\ \A s \in Receivers \ {r} : hpc'[s] = hpc[s] /\ hlink'[s] = hlink[s]
    BY Zenon DEF Always, TypeInv, TypeOK
  <1>3. ~InLink(r)' /\ ~InOutputs(r)'
    BY <1>2, Zenon DEF InLink, InOutputs
  <1>4. FrameInv(r)'
    <2>1. hout' = hout /\ Usable' = Usable /\ <<"link", r>> \notin waiting'
      BY Zenon DEF control, Usable
    <2>2. FrameInv(r)
      BY Zenon DEF Always, HotInv
    <2> HIDE DEF InLink, InOutputs
    <2> QED BY <1>3, <2>1, <2>2, Zenon DEF FrameInv, NoOutputs
  <1>5. \A s \in Receivers \ {r} : \A k \in {"link", "outputs"} :
            <<k, s>> \in waiting' <=> <<k, s>> \in waiting
    BY Zenon
  <1> HIDE DEF InLink
  <1> QED BY <1>2, <1>3, <1>4, <1>5, FrameStep, Zenon

\* The group looks at its state, as an active group or a stopped one.
LEMMA GroupOnReceiveStep ==
  ASSUME Always, Phase, NEW r \in Receivers, GroupOnReceive(r)
  PROVE  Always' /\ Phase'
  <1>   hpc[r] = "linked" /\ UNCHANGED <<control, hout>> /\ ~InOutputs(r)
    BY Zenon DEF GroupOnReceive, InOutputs
  <1>2. CASE LinkUnlock(r)
    BY <1>2, LinkUnlockStep, Zenon
  <1>3. CASE hpc' = [hpc EXCEPT ![r] = "checked"] /\ UNCHANGED <<hlink, waiting>>
    <2>1. /\ hpc' \in [Receivers -> {"idle", "linked", "checked", "sending", "served"}]
          /\ hlink' \in [Receivers -> Groups \cup {Null}] /\ hout' \in [Receivers -> Lists]
          /\ hpc'[r] = "checked" /\ \A s \in Receivers \ {r} : hpc'[s] = hpc[s]
      BY <1>3, Zenon DEF Always, TypeInv, TypeOK
    <2>2. FrameInv(r) /\ InLink(r) /\ \A s \in Receivers \ {r} : InLink(s) => hlink[r] # hlink[s]
      BY Zenon DEF Always, HotInv, InLink
    <2>3. InLink(r)' /\ ~InOutputs(r)'
      BY <2>1, Zenon DEF InLink, InOutputs
    <2>4. FrameInv(r)'
      <3>1. alive' = alive /\ link' = link /\ Usable' = Usable
        BY Zenon DEF control, Usable
      <3> HIDE DEF InLink, InOutputs
      <3> QED BY <1>3, <2>2, <2>3, <3>1, Zenon DEF FrameInv, NoOutputs
    <2> QED BY <1>3, <2>1, <2>2, <2>4, FrameStep, Zenon
  <1> QED BY <1>2, <1>3, Zenon DEF GroupOnReceive

\* The frame takes the hot list: all it lists are usable.
LEMMA GetOutputsLockStep ==
  ASSUME Always, Phase, NEW r \in Receivers, GetOutputsLock(r)
  PROVE  Always' /\ Phase'
  <1>   /\ hpc[r] = "checked" /\ hpc' = [hpc EXCEPT ![r] = "sending"]
        /\ hout' = [hout EXCEPT ![r] = hotlist[hlink[r]]]
        /\ UNCHANGED <<control, waiting, hlink>>
    BY Zenon DEF GetOutputsLock
  <1>   FrameInv(r) /\ InLink(r) /\ \A s \in Receivers \ {r} : InLink(s) => hlink[r] # hlink[s]
    BY Zenon DEF Always, HotInv, InLink
  <1>3. hlink[r] \in Groups
    BY Zenon DEF FrameInv
  <1>   /\ hpc' \in [Receivers -> {"idle", "linked", "checked", "sending", "served"}]
        /\ hlink' \in [Receivers -> Groups \cup {Null}] /\ hout' \in [Receivers -> Lists]
        /\ hpc'[r] = "sending" /\ hout'[r] = hotlist[hlink[r]]
        /\ \A s \in Receivers \ {r} : hpc'[s] = hpc[s] /\ hout'[s] = hout[s]
    BY <1>3, Zenon DEF Always, TypeInv, TypeOK
  <1>5. FrameInv(r)'
    <2>1. InLink(r)' /\ InOutputs(r)'
      BY Zenon DEF InLink, InOutputs
    <2>2. /\ alive' = alive /\ link' = link /\ Usable' = Usable /\ hotlist' = hotlist
          /\ hlink' = hlink /\ waiting' = waiting
      BY Zenon DEF control, Usable
    <2>3. \A c \in Transmitters : /\ hotlist[hlink[r]][c] \in Nat
                                  /\ hotlist[hlink[r]][c] > 0 => c \in Usable
      BY <1>3 DEF Always, Live, TypeInv, TypeOK, Lists
    <2> HIDE DEF InLink, InOutputs
    <2> QED BY <2>1, <2>2, <2>3 DEF FrameInv
  <1> QED BY <1>5, FrameStep, Zenon

\* The frame goes to one of the outputs it still has to reach.
LEMMA DoReceiveStep ==
  ASSUME Always, Phase, NEW r \in Receivers, DoReceive(r)
  PROVE  Always' /\ Phase'
  <1>   hpc[r] = "sending" /\ UNCHANGED <<control, waiting, hpc, hlink>>
    BY Zenon DEF DoReceive
  <1>2. PICK c \in Transmitters :
            /\ hout[r][c] > 0
            /\ hout' = [hout EXCEPT ![r] = [hout[r] EXCEPT ![c] = hout[r][c] - 1]]
    BY Zenon DEF DoReceive
  <1> DEFINE rest == [hout[r] EXCEPT ![c] = hout[r][c] - 1]
  <1>3. hout[r] \in Lists
    BY Zenon DEF Always, TypeInv, TypeOK
  <1>4. /\ rest \in Lists
        /\ \A d \in Transmitters : rest[d] \in Nat /\ hout[r][d] \in Nat /\ rest[d] <= hout[r][d]
    BY <1>2, <1>3 DEF Lists
  <1> HIDE DEF rest
  <1>5. /\ hout' \in [Receivers -> Lists] /\ hout'[r] = rest
        /\ \A s \in Receivers \ {r} : hout'[s] = hout[s]
    <2>1. hout' = [hout EXCEPT ![r] = rest]
      BY <1>2, Zenon DEF rest
    <2> QED BY <1>4, <2>1, Zenon DEF Always, TypeInv, TypeOK
  <1>6. \A d \in Transmitters : hout'[r][d] \in Nat /\ hout[r][d] \in Nat /\ hout'[r][d] <= hout[r][d]
    BY <1>4, <1>5, Zenon
  <1>   FrameInv(r) /\ InLink(r) /\ \A s \in Receivers \ {r} : InLink(s) => hlink[r] # hlink[s]
    BY Zenon DEF Always, HotInv, InLink
  <1>8. FrameInv(r)'
    <2>1. InOutputs(r) /\ InOutputs(r)' /\ InLink(r)'
      BY Zenon DEF InOutputs, InLink
    <2>2. /\ alive' = alive /\ link' = link /\ Usable' = Usable /\ hotlist' = hotlist
          /\ hlink' = hlink /\ waiting' = waiting
      BY Zenon DEF control, Usable
    <2>3. \A d \in Transmitters : hotlist[hlink[r]][d] \in Nat
      BY Zenon DEF FrameInv, Always, TypeInv, TypeOK, Lists
    <2> HIDE DEF InLink, InOutputs
    <2> QED BY <1>6, <2>1, <2>2, <2>3 DEF FrameInv
  <1>9. /\ hpc' \in [Receivers -> {"idle", "linked", "checked", "sending", "served"}]
        /\ hlink' \in [Receivers -> Groups \cup {Null}]
    BY Zenon DEF Always, TypeInv, TypeOK
  <1> QED BY <1>5, <1>8, <1>9, FrameStep, Zenon

\* The frame leaves the outputs section.
LEMMA OutputsUnlockStep ==
  ASSUME Always, Phase, NEW r \in Receivers, OutputsUnlock(r)
  PROVE  Always' /\ Phase'
  <1>   /\ hpc[r] = "sending" /\ hout[r] = NoOutputs
        /\ hpc' = [hpc EXCEPT ![r] = "served"]
        /\ waiting' = waiting \ {<<"outputs", r>>}
        /\ UNCHANGED <<control, hlink, hout>>
    BY Zenon DEF OutputsUnlock
  <1>2. /\ hpc' \in [Receivers -> {"idle", "linked", "checked", "sending", "served"}]
        /\ hlink' \in [Receivers -> Groups \cup {Null}] /\ hout' \in [Receivers -> Lists]
        /\ hpc'[r] = "served" /\ \A s \in Receivers \ {r} : hpc'[s] = hpc[s]
    BY Zenon DEF Always, TypeInv, TypeOK
  <1>3. FrameInv(r) /\ InLink(r) /\ \A s \in Receivers \ {r} : InLink(s) => hlink[r] # hlink[s]
    BY Zenon DEF Always, HotInv, InLink
  <1>4. FrameInv(r)'
    <2>1. ~InOutputs(r)' /\ InLink(r)'
      BY <1>2, Zenon DEF InOutputs, InLink
    <2>2. /\ alive' = alive /\ link' = link /\ Usable' = Usable
          /\ hlink' = hlink /\ hout' = hout
          /\ <<"link", r>> \in waiting' <=> <<"link", r>> \in waiting
      BY Zenon DEF control, Usable
    <2> HIDE DEF InLink, InOutputs
    <2> QED BY <1>3, <2>1, <2>2, Zenon DEF FrameInv, NoOutputs
  <1>5. \A s \in Receivers \ {r} : \A k \in {"link", "outputs"} :
            <<k, s>> \in waiting' <=> <<k, s>> \in waiting
    BY Zenon
  <1> QED BY <1>2, <1>3, <1>4, <1>5, FrameStep, Zenon
=============================================================================
