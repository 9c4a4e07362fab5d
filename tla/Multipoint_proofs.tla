------------------------- MODULE Multipoint_proofs -------------------------
(***************************************************************************)
(* Proofs about Multipoint for any number of receivers, transmitters,      *)
(* bridges and groups: what a frame on its way meets is never deleted, a   *)
(* group has one hot thread at a time, and the links agree between         *)
(* operations.                                                             *)
(*                                                                         *)
(* MultipointSteps_proofs has the invariant.  Here are the phases of the   *)
(* deletion of a group, the lists of steps the operations start with, the  *)
(* operations, and the theorems.                                           *)
(***************************************************************************)
EXTENDS MultipointSteps_proofs
-----------------------------------------------------------------------------
(* The deletion of a group.                                                *)

\* DeleteGroup unlinks the input from its side.
LEMMA DropInput1Step ==
  ASSUME Always, NEW g \in Groups, NEW S \in SUBSET Conns, NEW r \in Receivers,
         DropInput1(g, S, r), Execute
  PROVE  Always' /\ DropInput2(g, S)'
  <1>1. /\ Head(todo) = SetLink(r, Null) /\ todo # <<>>
        /\ Tail(todo) = <<SetLink(g, Null), SetState(g), SetLink(g, Null),
                          ClearOutputs(g), ResetHotOutputs(g), ClearOutputs(g),
                          DeleteBridges(g, S), Free(g)>>
    BY DEF DropInput1
  <1>2. r \in Conns
    BY Zenon DEF Conns
  <1>   /\ Always'
        /\ link' = [link EXCEPT ![r] = Null] /\ todo' = Tail(todo)
        /\ UNCHANGED <<alive, dying, outputs, hotlist, active, member, hot>>
    BY <1>1, <1>2, LinkConnStep, Zenon
  <1>   /\ \A x \in Objects : link'[x] = IF x = r THEN Null ELSE link[x]
        /\ \A x \in Conns : x \in Objects
        /\ \A x \in Groups : x \in Objects /\ x # r /\ x # Null
        /\ \A x \in Receivers : x \in Conns
    BY MultipointAssumption DEF Always, TypeInv, TypeOK, Objects, Conns
  <1>   \A q \in Receivers : link[q] = g <=> q = r
    BY Zenon DEF DropInput1, GroupsOk, GroupOk, InputOk
  <1>6. r \in S
    BY <1>2 DEF DropInput1, Dropped, ConnsOk
  <1>7. Dropped(g, S)'
    BY <1>6 DEF DropInput1, Dropped, ConnsOk, Usable
  <1>8. ASSUME NEW h \in Groups, h # g
        PROVE  GroupOk(h)'
    BY <1>8, GroupKept DEF DropInput1, GroupsOk
  <1>9. NoSource(g, {})'
    BY Zenon DEF NoSource
  <1> QED BY <1>1, <1>7, <1>8, <1>9, Zenon
          DEF DropInput2, GroupsOk, SetLink, SetState, ClearOutputs, ResetHotOutputs,
              DeleteBridges, Free

\* What a step that changes only the link or the lists of g leaves of Dropped.
LEMMA DroppedKept ==
  ASSUME NEW g \in Groups, NEW S \in SUBSET Conns, Dropped(g, S), GroupsOk({g}),
         NoSource(g, {}),
         \A d \in Conns : link'[d] = link[d],
         \A h \in Groups \ {g} : /\ link'[h] = link[h] /\ outputs'[h] = outputs[h]
                                 /\ hotlist'[h] = hotlist[h],
         UNCHANGED <<alive, dying, member>>
  PROVE  Dropped(g, S)' /\ GroupsOk({g})' /\ NoSource(g, {})'
  <1>1. Dropped(g, S)'
    BY Zenon DEF Dropped, ConnsOk, Usable
  <1>2. GroupsOk({g})'
    BY GroupKept, Zenon DEF GroupsOk
  <1>3. NoSource(g, {})'
    BY Zenon DEF NoSource, Conns
  <1> QED BY <1>1, <1>2, <1>3, Zenon

\* Both places where the link of g is set to nothing.
LEMMA UnlinkGroup ==
  ASSUME Always, NEW g \in Groups, NEW S \in SUBSET Conns,
         Dropped(g, S), GroupsOk({g}), NoSource(g, {}),
         todo # <<>>, Head(todo) = SetLink(g, Null), Execute
  PROVE  Always' /\ todo' = Tail(todo) /\ Cut(g, S)'
  <1>   /\ Always'
        /\ link' = [link EXCEPT ![g] = Null] /\ todo' = Tail(todo)
        /\ UNCHANGED <<alive, dying, outputs, hotlist, active, member, hot>>
    BY LinkGroupStep, Zenon
  <1>2. \A x \in Objects : link'[x] = IF x = g THEN Null ELSE link[x]
    BY Zenon DEF Always, TypeInv, TypeOK
  <1>3. /\ \A d \in Conns : link'[d] = link[d]
        /\ \A h \in Groups \ {g} : link'[h] = link[h]
        /\ link'[g] = Null
    BY <1>2, MultipointAssumption DEF Objects, Conns
  <1>4. Dropped(g, S)' /\ GroupsOk({g})' /\ NoSource(g, {})'
    BY <1>3, DroppedKept, Zenon
  <1> QED BY <1>3, <1>4, Zenon DEF Cut

\* DeleteGroup unlinks the input from the side of the group.
LEMMA DropInput2Step ==
  ASSUME Always, NEW g \in Groups, NEW S \in SUBSET Conns, DropInput2(g, S), Execute
  PROVE  Always' /\ Close1(g, S)'
  <1>1. /\ Head(todo) = SetLink(g, Null) /\ todo # <<>>
        /\ Tail(todo) = <<SetState(g), SetLink(g, Null),
                          ClearOutputs(g), ResetHotOutputs(g), ClearOutputs(g),
                          DeleteBridges(g, S), Free(g)>>
    BY DEF DropInput2
  <1>2. Always' /\ todo' = Tail(todo) /\ Cut(g, S)'
    BY <1>1, UnlinkGroup, Zenon DEF DropInput2
  <1> QED BY <1>1, <1>2, Zenon
          DEF Close1, SetLink, SetState, ClearOutputs, ResetHotOutputs, DeleteBridges, Free

\* The group is stopped.
LEMMA Close1Step ==
  ASSUME Always, NEW g \in Groups, NEW S \in SUBSET Conns, Close1(g, S), Execute
  PROVE  Always' /\ Close2(g, S)'
  <1>1. /\ Head(todo) = SetState(g) /\ todo # <<>>
        /\ Tail(todo) = <<SetLink(g, Null), ClearOutputs(g), ResetHotOutputs(g),
                          ClearOutputs(g), DeleteBridges(g, S), Free(g)>>
    BY DEF Close1
  <1>2. /\ Always' /\ todo' = Tail(todo)
        /\ UNCHANGED <<alive, dying, link, outputs, hotlist, member, hot>>
    BY <1>1, StateStep, Zenon
  <1>3. Cut(g, S)'
    BY <1>2, DroppedKept, Zenon DEF Close1, Cut
  <1> QED BY <1>1, <1>2, <1>3, Zenon
          DEF Close2, SetLink, ClearOutputs, ResetHotOutputs, DeleteBridges, Free

\* The group clears its link.
LEMMA Close2Step ==
  ASSUME Always, NEW g \in Groups, NEW S \in SUBSET Conns, Close2(g, S), Execute
  PROVE  Always' /\ Close3(g, S)'
  <1>1. /\ Head(todo) = SetLink(g, Null) /\ todo # <<>>
        /\ Tail(todo) = <<ClearOutputs(g), ResetHotOutputs(g),
                          ClearOutputs(g), DeleteBridges(g, S), Free(g)>>
    BY DEF Close2
  <1>2. Always' /\ todo' = Tail(todo) /\ Cut(g, S)'
    BY <1>1, UnlinkGroup, Zenon DEF Close2, Cut
  <1> QED BY <1>1, <1>2, Zenon DEF Close3, ClearOutputs, ResetHotOutputs, DeleteBridges, Free

\* outputs.clear(), in on_shutdown() and again in delete_all_outputs().
LEMMA ClearGroup ==
  ASSUME Always, NEW g \in Groups, NEW S \in SUBSET Conns, Cut(g, S),
         todo # <<>>, Head(todo) = ClearOutputs(g), Execute
  PROVE  /\ Always' /\ todo' = Tail(todo) /\ Cut(g, S)'
         /\ outputs'[g] = NoOutputs /\ hotlist' = hotlist
  <1>1. Head(todo) = <<"clear", g, Null>>
    BY Zenon DEF ClearOutputs
  <1>   /\ Always'
        /\ outputs' = [outputs EXCEPT ![g] = NewOutputs("clear", g, Null)]
        /\ todo' = Tail(todo)
        /\ UNCHANGED <<alive, dying, link, hotlist, active, member, hot>>
    BY <1>1, OutputsStep, Zenon
  <1>3. /\ outputs'[g] = NoOutputs
        /\ \A h \in Groups \ {g} : outputs'[h] = outputs[h]
    BY Zenon DEF NewOutputs, Always, TypeInv, TypeOK
  <1>4. Cut(g, S)'
    BY <1>3, DroppedKept, Zenon DEF Cut
  <1> QED BY <1>3, <1>4, Zenon

\* The group clears its list, before the hot copy.
LEMMA Close3Step ==
  ASSUME Always, NEW g \in Groups, NEW S \in SUBSET Conns, Close3(g, S), Execute
  PROVE  Always' /\ Close4(g, S)'
  <1>1. /\ Head(todo) = ClearOutputs(g) /\ todo # <<>>
        /\ Tail(todo) = <<ResetHotOutputs(g), ClearOutputs(g), DeleteBridges(g, S), Free(g)>>
    BY DEF Close3
  <1>2. Always' /\ todo' = Tail(todo) /\ Cut(g, S)' /\ outputs'[g] = NoOutputs
    BY <1>1, ClearGroup, Zenon DEF Close3
  <1> QED BY <1>1, <1>2, Zenon
          DEF Close4, ResetHotOutputs, ClearOutputs, DeleteBridges, Free, NoOutputs

\* A new hot copy of a group that has no outputs.
LEMMA ResetGroup ==
  ASSUME Always, NEW g \in Groups, NEW S \in SUBSET Conns, NEW op \in {"hot", "reset"},
         Cut(g, S), outputs[g] = NoOutputs,
         todo # <<>>, Head(todo) = <<op, g, Null>>, Execute
  PROVE  Always' /\ todo' = Tail(todo) /\ Bare(g, S)' /\ link' = link
  <1>1. NewHotList(op, g) = NoOutputs
    BY Zenon DEF NewHotList
  <1>2. \A c \in Transmitters : ~(NoOutputs[c] > 0)
    BY DEF NoOutputs
  <1>   /\ Always'
        /\ hotlist' = [hotlist EXCEPT ![g] = NoOutputs]
        /\ todo' = Tail(todo)
        /\ UNCHANGED <<alive, dying, link, outputs, active, member, hot>>
    BY <1>1, <1>2, HotStep, Zenon
  <1>4. /\ hotlist'[g] = NoOutputs
        /\ \A h \in Groups \ {g} : hotlist'[h] = hotlist[h]
    BY Zenon DEF Always, TypeInv, TypeOK
  <1>5. Cut(g, S)'
    BY <1>4, DroppedKept, Zenon DEF Cut
  <1> QED BY <1>4, <1>5, Zenon DEF Bare, NoOutputs

\* The hot copy is reset: no frame reads the list any more.
LEMMA Close4Step ==
  ASSUME Always, NEW g \in Groups, NEW S \in SUBSET Conns, Close4(g, S), Execute
  PROVE  Always' /\ Close5(g, S)'
  <1>1. /\ Head(todo) = <<"reset", g, Null>> /\ todo # <<>>
        /\ Tail(todo) = <<ClearOutputs(g), DeleteBridges(g, S), Free(g)>>
    BY DEF Close4, ResetHotOutputs
  <1>2. Always' /\ todo' = Tail(todo) /\ Bare(g, S)'
    BY <1>1, ResetGroup, Zenon DEF Close4
  <1> QED BY <1>1, <1>2, Zenon DEF Close5, ClearOutputs, DeleteBridges, Free

\* delete_all_outputs() clears the list again.
LEMMA Close5Step ==
  ASSUME Always, NEW g \in Groups, NEW S \in SUBSET Conns, Close5(g, S), Execute
  PROVE  Always' /\ Loop(g, S)'
  <1>1. /\ Head(todo) = ClearOutputs(g) /\ todo # <<>>
        /\ Tail(todo) = <<DeleteBridges(g, S), Free(g)>>
    BY DEF Close5
  <1>2. /\ Always' /\ todo' = Tail(todo) /\ Cut(g, S)'
        /\ outputs'[g] = NoOutputs /\ hotlist' = hotlist
    BY <1>1, ClearGroup, Zenon DEF Close5, Bare
  <1>3. Bare(g, S)'
    BY <1>2, Zenon DEF Close5, Bare, NoOutputs
  <1> QED BY <1>1, <1>2, <1>3, Zenon DEF Loop, DeleteBridges, Free

\* A bridge is erased from the list of the group.
LEMMA Bridge1Step ==
  ASSUME Always, NEW g \in Groups, NEW S \in SUBSET Conns, NEW b \in S,
         Bridge1(g, S, b), Execute
  PROVE  Always' /\ Bridge2(g, S, b)'
  <1>   /\ Head(todo) = <<"erase", g, b>> /\ todo # <<>> /\ b \in Transmitters
        /\ Tail(todo) = <<SetHotOutputs(g), SetLink(b, Null),
                          Retire(b), DeleteBridges(g, S \ {b}), Free(g)>>
    BY DEF Bridge1, EraseOutput
  <1>   /\ Always'
        /\ outputs' = [outputs EXCEPT ![g] = NewOutputs("erase", g, b)]
        /\ todo' = Tail(todo)
        /\ UNCHANGED <<alive, dying, link, hotlist, active, member, hot>>
    BY OutputsStep, Zenon
  <1>3. NewOutputs("erase", g, b) = NoOutputs
    BY Zenon DEF Bridge1, Bare, NewOutputs, NoOutputs
  <1>4. /\ outputs'[g] = NoOutputs
        /\ \A h \in Groups \ {g} : outputs'[h] = outputs[h]
    BY <1>3, Zenon DEF Always, TypeInv, TypeOK
  <1>5. Bare(g, S)'
    BY <1>4, DroppedKept, Zenon DEF Bridge1, Bare, Cut, NoOutputs
  <1> QED BY <1>5, Zenon
          DEF Bridge2, SetHotOutputs, SetLink, Retire, DeleteBridges, Free

\* The hot copy is set again, from an empty list.
LEMMA Bridge2Step ==
  ASSUME Always, NEW g \in Groups, NEW S \in SUBSET Conns, NEW b \in S,
         Bridge2(g, S, b), Execute
  PROVE  Always' /\ Bridge3(g, S, b)'
  <1>1. /\ Head(todo) = <<"hot", g, Null>> /\ todo # <<>> /\ b \in Transmitters
        /\ Tail(todo) = <<SetLink(b, Null), Retire(b), DeleteBridges(g, S \ {b}), Free(g)>>
    BY DEF Bridge2, SetHotOutputs
  <1>2. Always' /\ todo' = Tail(todo) /\ Bare(g, S)'
    BY <1>1, ResetGroup, Zenon DEF Bridge2, Bare
  <1> QED BY <1>1, <1>2, Zenon DEF Bridge3, SetLink, Retire, DeleteBridges, Free

\* The bridge loses its link.
LEMMA Bridge3Step ==
  ASSUME Always, NEW g \in Groups, NEW S \in SUBSET Conns, NEW b \in S,
         Bridge3(g, S, b), Execute
  PROVE  Always' /\ Bridge4(g, S, b)'
  <1>1. /\ Head(todo) = SetLink(b, Null) /\ todo # <<>>
        /\ Tail(todo) = <<Retire(b), DeleteBridges(g, S \ {b}), Free(g)>>
    BY DEF Bridge3
  <1>   b \in Conns /\ b \notin Receivers
    BY MultipointAssumption, Zenon DEF Bridge3
  <1>   /\ Always'
        /\ link' = [link EXCEPT ![b] = Null] /\ todo' = Tail(todo)
        /\ UNCHANGED <<alive, dying, outputs, hotlist, active, member, hot>>
    BY <1>1, LinkConnStep, Zenon
  <1>   /\ \A x \in Objects : link'[x] = IF x = b THEN Null ELSE link[x]
        /\ \A x \in Conns : x \in Objects
        /\ \A x \in Groups : x \in Objects /\ x # b /\ x # Null
        /\ \A x \in Receivers : x \in Conns
    BY MultipointAssumption DEF Always, TypeInv, TypeOK, Objects, Conns
  <1>5. Dropped(g, S)'
    BY Zenon DEF Bridge3, Bare, Cut, Dropped, ConnsOk, Usable
  <1>6. ASSUME NEW h \in Groups, h # g
        PROVE  GroupOk(h)'
    <2>1. link[b] \in {g, Null}
      BY Zenon DEF Bridge3, Bare, Cut, Dropped
    <2> QED BY <1>6, <2>1, GroupKept DEF Bridge3, Bare, Cut, GroupsOk
  <1>7. NoSource(g, {})' /\ link'[g] = Null
    BY Zenon DEF NoSource, Bridge3, Bare, Cut
  <1>8. Bare(g, S)' /\ link'[b] = Null
    BY <1>5, <1>6, <1>7, Zenon DEF Bridge3, Bare, Cut, GroupsOk, NoOutputs
  <1> QED BY <1>1, <1>8, Zenon DEF Bridge4, Retire, DeleteBridges, Free

\* The bridge leaves the registry; the next one is up.
LEMMA Bridge4Step ==
  ASSUME Always, NEW g \in Groups, NEW S \in SUBSET Conns, NEW b \in S,
         Bridge4(g, S, b), Execute
  PROVE  Always' /\ Loop(g, S \ {b})'
  <1>1. /\ Head(todo) = Retire(b) /\ todo # <<>>
        /\ Tail(todo) = <<DeleteBridges(g, S \ {b}), Free(g)>>
    BY DEF Bridge4
  <1>   link[b] = Null /\ member[b] = Null /\ b \in alive /\ b \in Conns
    BY Zenon DEF Bridge4, Bare, Cut, Dropped, Usable
  <1>3. ASSUME NEW h \in Groups, b \in Transmitters
        PROVE  hotlist[h][b] = 0
    <2>1. CASE h = g
      BY <1>3, <2>1, Zenon DEF Bridge4, Bare, NoOutputs
    <2>2. CASE h # g
      BY <1>3, <2>2, MultipointAssumption
         DEF Bridge4, Bare, Cut, GroupsOk, GroupOk, HotOk, OutputsOk, Listed
    <2> QED BY <2>1, <2>2, Zenon
  <1>   /\ Always' /\ todo' = Tail(todo) /\ dying' = dying \cup {b}
        /\ UNCHANGED <<alive, link, outputs, hotlist, active, member, hot>>
    BY <1>1, <1>3, RetireStep, Zenon
  <1>5. Dropped(g, S \ {b})'
    BY Zenon DEF Bridge4, Bare, Cut, Dropped, ConnsOk, Usable
  <1>6. GroupsOk({g})' /\ NoSource(g, {})'
    BY GroupKept, Zenon DEF Bridge4, Bare, Cut, GroupsOk, NoSource
  <1>7. Bare(g, S \ {b})'
    BY <1>5, <1>6, Zenon DEF Bridge4, Bare, Cut, NoOutputs
  <1> QED BY <1>1, <1>7, Zenon DEF Loop, DeleteBridges, Free

\* The group is deleted: no connection and no frame refers to it.
LEMMA FreeingStep ==
  ASSUME Always, NEW g \in Groups, Freeing(g), Execute
  PROVE  Always' /\ Settled'
  <1>1. Head(todo) = Free(g) /\ todo # <<>> /\ Tail(todo) = <<>>
    BY DEF Freeing
  <1>   \A c \in Conns : link[c] = member[c] /\ member[c] # g
    BY Zenon DEF Freeing, Bare, Cut, Dropped, ConnsOk
  <1>3. /\ Always' /\ todo' = Tail(todo)
        /\ UNCHANGED <<dying, link, outputs, hotlist, member, hot>>
    BY <1>1, FreeStep, Zenon
  <1>4. GroupOk(g)
    <2>1. InputOk(g)
      BY MultipointAssumption, Zenon DEF Freeing, Bare, Cut, InputOk, Conns
    <2>2. OutputsOk(g) /\ HotOk(g)
      BY Zenon DEF Freeing, Bare, OutputsOk, HotOk, Listed, NoOutputs, Conns
    <2> QED BY <2>1, <2>2, Zenon DEF GroupOk
  <1>5. GroupsOk({})
    BY <1>4, Zenon DEF Freeing, Bare, Cut, GroupsOk
  <1>6. GroupsOk({})' /\ ConnsOk({})'
    BY <1>3, <1>5, GroupKept, Zenon DEF GroupsOk, ConnsOk
  <1> QED BY <1>1, <1>3, <1>6, Zenon DEF Settled

\* DeleteGroup under way, before the loop over the bridges and in it.
LEMMA ClosingStep ==
  ASSUME Always, NEW g \in Groups, NEW S \in SUBSET Conns, Closing(g, S), Execute
  PROVE  Always' /\ (Closing(g, S)' \/ Emptying(g, S)')
  BY DropInput1Step, DropInput2Step, Close1Step, Close2Step, Close3Step, Close4Step, Close5Step, Zenon
     DEF Closing, Emptying

\* The loop over the bridges under way.
LEMMA EmptyingStep ==
  ASSUME Always, NEW g \in Groups, NEW S \in SUBSET Conns, Emptying(g, S), Execute
  PROVE  Always' /\ \E R \in SUBSET Conns : Emptying(g, R)'
  <1>1. ~Loop(g, S)
    BY DEF Loop, DeleteBridges, Execute
  <1>2. PICK b \in S : Bridge1(g, S, b) \/ Bridge2(g, S, b) \/ Bridge3(g, S, b) \/ Bridge4(g, S, b)
    BY <1>1, Zenon DEF Emptying
  <1>3. Always' /\ (Emptying(g, S)' \/ Emptying(g, S \ {b})')
    BY <1>2, Bridge1Step, Bridge2Step, Bridge3Step, Bridge4Step, Zenon DEF Emptying
  <1> QED BY <1>3, Zenon
-----------------------------------------------------------------------------
(* The lists of steps that the operations start with.                      *)

\* Two sequences of the same length with the same elements are equal.
LEMMA SameSeq ==
  ASSUME NEW S, NEW s \in Seq(S), NEW t \in Seq(S), NEW n \in Nat,
         Len(s) = n, Len(t) = n, \A i \in 1..n : s[i] = t[i]
  PROVE  s = t
  <1>1. s \in [1..n -> S] /\ t \in [1..n -> S]
    OBVIOUS
  <1> QED BY <1>1

\* Concatenations of the lists of steps that occur.
LEMMA Cat11 ==
  ASSUME NEW a, NEW b
  PROVE  <<a>> \o <<b>> = <<a, b>>
  <1> DEFINE S == {a, b}
  <1>   <<a>> \in Seq(S) /\ <<b>> \in Seq(S) /\ <<a, b>> \in Seq(S)
    OBVIOUS
  <1>2. <<a>> \o <<b>> \in Seq(S) /\ Len(<<a>> \o <<b>>) = 2
    OBVIOUS
  <1>3. \A i \in 1..2 : (<<a>> \o <<b>>)[i] = <<a, b>>[i]
    OBVIOUS
  <1> QED BY <1>2, <1>3, SameSeq, Zenon

\* As above, for other lengths.
LEMMA Cat21 ==
  ASSUME NEW a, NEW b, NEW c
  PROVE  <<a, b>> \o <<c>> = <<a, b, c>>
  <1> DEFINE S == {a, b, c}
  <1>   <<a, b>> \in Seq(S) /\ <<c>> \in Seq(S) /\ <<a, b, c>> \in Seq(S)
    OBVIOUS
  <1>2. <<a, b>> \o <<c>> \in Seq(S) /\ Len(<<a, b>> \o <<c>>) = 3
    OBVIOUS
  <1>3. \A i \in 1..3 : (<<a, b>> \o <<c>>)[i] = <<a, b, c>>[i]
    OBVIOUS
  <1> QED BY <1>2, <1>3, SameSeq, Zenon

\* As above, for other lengths.
LEMMA Append2 ==
  ASSUME NEW a, NEW b, NEW c
  PROVE  Append(<<a, b>>, c) = <<a, b, c>>
  <1> DEFINE S == {a, b, c}
  <1>   <<a, b>> \in Seq(S) /\ <<a, b, c>> \in Seq(S)
    OBVIOUS
  <1>2. Append(<<a, b>>, c) \in Seq(S) /\ Len(Append(<<a, b>>, c)) = 3
    OBVIOUS
  <1>3. \A i \in 1..3 : Append(<<a, b>>, c)[i] = <<a, b, c>>[i]
    OBVIOUS
  <1> QED BY <1>2, <1>3, SameSeq, Zenon

\* As above, for other lengths.
LEMMA Append3 ==
  ASSUME NEW a, NEW b, NEW c, NEW d
  PROVE  Append(<<a, b, c>>, d) = <<a, b, c, d>>
  <1> DEFINE S == {a, b, c, d}
  <1>   <<a, b, c>> \in Seq(S) /\ <<a, b, c, d>> \in Seq(S)
    OBVIOUS
  <1>2. Append(<<a, b, c>>, d) \in Seq(S) /\ Len(Append(<<a, b, c>>, d)) = 4
    OBVIOUS
  <1>3. \A i \in 1..4 : Append(<<a, b, c>>, d)[i] = <<a, b, c, d>>[i]
    OBVIOUS
  <1> QED BY <1>2, <1>3, SameSeq, Zenon

\* The lists of the loop over the bridges ...
LEMMA Cat111 ==
  ASSUME NEW a, NEW b, NEW c
  PROVE  <<a>> \o <<b>> \o <<c>> = <<a, b, c>>
  <1>1. <<a>> \o <<b>> = <<a, b>>
    BY Cat11, Zenon
  <1>2. <<a, b>> \o <<c>> = <<a, b, c>>
    BY Cat21, Zenon
  <1> QED BY <1>1, <1>2, Zenon

\* As above, for other lengths.
LEMMA Cat411 ==
  ASSUME NEW a, NEW b, NEW c, NEW d, NEW e, NEW f
  PROVE  <<a, b, c, d>> \o <<e>> \o <<f>> = <<a, b, c, d, e, f>>
  <1> DEFINE S == {a, b, c, d, e, f}
             s == <<a, b, c, d>> \o <<e>> \o <<f>>
             t == <<a, b, c, d, e, f>>
  <1>   <<a, b, c, d>> \in Seq(S) /\ <<e>> \in Seq(S) /\ <<f>> \in Seq(S) /\ t \in Seq(S)
    OBVIOUS
  <1>2. s \in Seq(S) /\ Len(s) = 6 /\ Len(t) = 6
    OBVIOUS
  <1>3. \A i \in 1..6 : s[i] = t[i]
    OBVIOUS
  <1> HIDE DEF S, s, t
  <1>4. s = t
    BY <1>2, <1>3, SameSeq, Zenon
  <1> QED BY <1>4, Zenon DEF s, t

\* ... and those of DeleteGroupSteps.
LEMMA Cat043 ==
  ASSUME NEW a, NEW b, NEW c, NEW d, NEW e, NEW f, NEW g
  PROVE  <<>> \o <<a, b, c, d>> \o <<e, f, g>> = <<a, b, c, d, e, f, g>>
  <1> DEFINE S == {a, b, c, d, e, f, g}
             s == <<>> \o <<a, b, c, d>> \o <<e, f, g>>
             t == <<a, b, c, d, e, f, g>>
  <1>   <<a, b, c, d>> \in Seq(S) /\ <<e, f, g>> \in Seq(S) /\ <<>> \in Seq(S) /\ t \in Seq(S)
    OBVIOUS
  <1>2. s \in Seq(S) /\ Len(s) = 7 /\ Len(t) = 7
    OBVIOUS
  <1>3. \A i \in 1..7 : s[i] = t[i]
    OBVIOUS
  <1> HIDE DEF S, s, t
  <1>4. s = t
    BY <1>2, <1>3, SameSeq, Zenon
  <1> QED BY <1>4, Zenon DEF s, t

\* As above, for other lengths.
LEMMA Cat243 ==
  ASSUME NEW a, NEW b, NEW c, NEW d, NEW e, NEW f, NEW g, NEW h, NEW i
  PROVE  <<a, b>> \o <<c, d, e, f>> \o <<g, h, i>> = <<a, b, c, d, e, f, g, h, i>>
  <1> DEFINE S == {a, b, c, d, e, f, g, h, i}
             s == <<a, b>> \o <<c, d, e, f>> \o <<g, h, i>>
             t == <<a, b, c, d, e, f, g, h, i>>
  <1>   /\ <<a, b>> \in Seq(S) /\ <<c, d, e, f>> \in Seq(S) /\ <<g, h, i>> \in Seq(S)
        /\ t \in Seq(S)
    OBVIOUS
  <1>2. s \in Seq(S) /\ Len(s) = 9 /\ Len(t) = 9
    OBVIOUS
  <1>3. \A j \in 1..9 : s[j] = t[j]
    OBVIOUS
  <1> HIDE DEF S, s, t
  <1>4. s = t
    BY <1>2, <1>3, SameSeq
  <1> QED BY <1>4, Zenon DEF s, t

\* The steps of Unlink for a receiver, a transmitter and an unlinked connection.
LEMMA UnlinkList ==
  ASSUME NEW c, link[c] # Null
  PROVE  LET g == link[c] IN
         /\ link[g] = c => Unlink(c) = <<SetLink(g, Null), SetLink(c, Null)>>
         /\ link[g] # c => Unlink(c) = <<EraseOutput(g, c), SetHotOutputs(g), SetLink(c, Null)>>
  BY Cat11, Cat21, Zenon DEF Unlink, GroupUnlink

\* The steps of Delete.
LEMMA DeleteList ==
  ASSUME NEW c
  PROVE  LET g == link[c] IN
         /\ g = Null => Delete(c) = <<Retire(c)>>
         /\ g # Null /\ link[g] = c =>
                Delete(c) = <<SetLink(g, Null), SetLink(c, Null), Retire(c)>>
         /\ g # Null /\ link[g] # c =>
                Delete(c) = <<EraseOutput(g, c), SetHotOutputs(g), SetLink(c, Null), Retire(c)>>
  <1>1. CASE link[c] = Null
    BY <1>1 DEF Delete, Unlink
  <1>2. CASE link[c] # Null /\ link[link[c]] = c
    BY <1>2, UnlinkList, Append2, Zenon DEF Delete
  <1>3. CASE link[c] # Null /\ link[link[c]] # c
    BY <1>3, UnlinkList, Append3, Zenon DEF Delete
  <1> QED BY <1>1, <1>2, <1>3, Zenon
-----------------------------------------------------------------------------
(* The operations.                                                         *)

\* What an operation that changes only the config and the list of steps keeps.
LEMMA OperationKeeps ==
  ASSUME Always, UNCHANGED <<objects, waiting, hot>>,
         member' \in [Conns -> Groups \cup {Null}],
         \A c \in Conns : member'[c] # Null => c \in Usable /\ member'[c] \in alive
  PROVE  /\ Always' /\ Usable' = Usable
         /\ UNCHANGED <<alive, dying, link, outputs, hotlist, active>>
  <1>   UNCHANGED <<alive, dying, link, outputs, hotlist, active>> /\ Usable' = Usable
    BY Zenon DEF objects, Usable
  <1>2. TypeInv'
    BY Zenon DEF Always, TypeInv, TypeOK, hot
  <1>3. Live'
    BY Zenon DEF Always, Live
  <1>4. HotInv'
    BY Zenon DEF Always, HotInv, FrameInv, InLink, InOutputs, hot
  <1> QED BY <1>2, <1>3, <1>4, Zenon DEF Always

\* Between operations every connection and every group agrees.
LEMMA SettledWhenIdle ==
  ASSUME Phase, Idle
  PROVE  Settled
  <1>1. \A g, c : ~Linking(g, c) /\ ~Unlinking(g, c)
    BY DEF Idle, Linking, Unlinking, LinkRx1, LinkRx2, LinkTx1, LinkTx2, LinkTx3,
           UnlinkRx1, UnlinkRx2, UnlinkTx1, UnlinkTx2, UnlinkTx3
  <1>2. \A g, S : ~Closing(g, S)
    BY DEF Idle, Closing, DropInput1, DropInput2, Close1, Close2, Close3, Close4, Close5
  <1>3. \A g, S : ~Emptying(g, S)
    BY DEF Idle, Emptying, Loop, Bridge1, Bridge2, Bridge3, Bridge4
  <1>4. \A c : ~Retiring(c) /\ ~Freeing(c)
    BY Zenon DEF Idle, Retiring, Freeing
  <1> QED BY <1>1, <1>2, <1>3, <1>4, Zenon DEF Phase

\* A new group, with nothing linked to it.
LEMMA AddGroupStep ==
  ASSUME Always, Settled, NEW g \in Groups, AddGroup(g)
  PROVE  Always' /\ Settled'
  <1>   /\ Idle /\ alive' = alive \cup {g} /\ active' = active \cup {g}
        /\ link' = [link EXCEPT ![g] = Null]
        /\ outputs' = [outputs EXCEPT ![g] = NoOutputs]
        /\ hotlist' = [hotlist EXCEPT ![g] = NoOutputs]
        /\ UNCHANGED <<dying, member, todo, waiting, hpc, hlink, hout>>
    BY Zenon DEF AddGroup, hot
  <1>2. g \notin alive
    BY Zenon DEF AddGroup
  <1>   \A c \in Conns : member[c] # g /\ link[c] = member[c]
    BY <1>2, MultipointAssumption, Zenon DEF Always, Live, Settled, ConnsOk
  <1>   /\ \A d \in Conns : link'[d] = link[d]
        /\ \A h \in Groups : link'[h] = IF h = g THEN Null ELSE link[h]
    BY MultipointAssumption, Zenon DEF Always, TypeInv, TypeOK, Objects, Conns
  <1>   \A h \in Groups : /\ outputs'[h] = IF h = g THEN NoOutputs ELSE outputs[h]
                          /\ hotlist'[h] = IF h = g THEN NoOutputs ELSE hotlist[h]
    BY Zenon DEF Always, TypeInv, TypeOK
  <1>6. Usable' = Usable
    BY MultipointAssumption, Zenon DEF Usable, Conns
  <1>7. TypeInv'
    <2>1. NoOutputs \in Lists
      BY Zenon DEF NoOutputs, Lists
    <2>2. link' \in [Objects -> Objects \cup {Null}]
      BY Zenon DEF Always, TypeInv, TypeOK, Objects
    <2>3. outputs' \in [Groups -> Lists] /\ hotlist' \in [Groups -> Lists]
      BY <2>1, Zenon DEF Always, TypeInv, TypeOK
    <2> HIDE DEF NoOutputs
    <2> QED BY <2>2, <2>3 DEF Always, TypeInv, TypeOK, Objects
  <1>8. Live'
    <2>1. \A h \in Groups, c \in Transmitters : hotlist'[h][c] > 0 => c \in Usable
      BY DEF NoOutputs, Always, Live
    <2>2. dying' \subseteq alive' /\ alive \subseteq alive'
      BY Zenon DEF Always, Live
    <2>3. \A r \in Receivers : link'[r] = link[r]
      BY Zenon DEF Conns
    <2> QED BY <1>6, <2>1, <2>2, <2>3 DEF Always, Live
  <1>9. HotInv'
    <2>1. ASSUME NEW r \in Receivers
          PROVE  FrameInv(r)'
      <3>1. /\ InLink(r)' = InLink(r) /\ InOutputs(r)' = InOutputs(r)
            /\ \A s \in Receivers : link'[s] = link[s]
        BY Zenon DEF InLink, InOutputs, Conns
      <3>2. waiting = {} /\ waiting' = {}
        BY Zenon DEF Idle
      <3>3. InOutputs(r) => hlink[r] \in Groups /\ hlink[r] # g
        BY <1>2, Zenon DEF Always, HotInv, FrameInv, InLink, InOutputs
      <3>4. InOutputs(r) => hotlist'[hlink[r]] = hotlist[hlink[r]]
        BY <3>3, Zenon
      <3> QED BY <1>6, <3>1, <3>2, <3>4 DEF Always, HotInv, FrameInv
    <2>2. \A r, s \in Receivers :
             InLink(r)' /\ InLink(s)' /\ hlink'[r] = hlink'[s] => r = s
      BY Zenon DEF Always, HotInv, InLink
    <2> QED BY <2>1, <2>2, Zenon DEF HotInv
  <1>10. GroupsOk({})'
    <2>1. ASSUME NEW h \in Groups, h # g
          PROVE  GroupOk(h)'
      BY <2>1, GroupKept, Zenon DEF Settled, GroupsOk
    <2>2. InputOk(g)'
      BY MultipointAssumption DEF InputOk, Conns
    <2>3. OutputsOk(g)' /\ HotOk(g)'
      BY DEF OutputsOk, HotOk, Listed, NoOutputs, Conns
    <2> QED BY <2>1, <2>2, <2>3, Zenon DEF GroupsOk, GroupOk
  <1>11. ConnsOk({})' /\ todo' = <<>>
    BY Zenon DEF ConnsOk, Idle
  <1> QED BY <1>7, <1>8, <1>9, <1>10, <1>11, Zenon DEF Always, Settled

\* A new connection, with no link.
LEMMA AddConnStep ==
  ASSUME Always, Settled, NEW c \in Conns, AddConn(c)
  PROVE  Always' /\ Settled'
  <1>   /\ Idle /\ alive' = alive \cup {c} /\ c \notin alive
        /\ link' = [link EXCEPT ![c] = Null]
        /\ UNCHANGED <<dying, outputs, hotlist, active, member, todo, waiting, hpc, hlink, hout>>
    BY Zenon DEF AddConn, hot
  <1>2. link[c] = Null
    BY Zenon DEF Always, Live, Usable
  <1>   link' = link
    BY <1>2, Zenon DEF Always, TypeInv, TypeOK, Objects
  <1>4. Usable \subseteq Usable'
    BY Zenon DEF Usable
  <1>5. TypeInv'
    BY Zenon DEF Always, TypeInv, TypeOK, Objects
  <1>6. Live'
    BY <1>4, Zenon DEF Always, Live
  <1>7. HotInv'
    BY <1>4, Zenon DEF Always, HotInv, FrameInv, InLink, InOutputs
  <1>8. ConnsOk({})' /\ GroupsOk({})'
    BY GroupKept, Zenon DEF Settled, ConnsOk, GroupsOk
  <1> QED BY <1>5, <1>6, <1>7, <1>8, Zenon DEF Always, Settled

\* LinkConn starts the linking of a connection.
LEMMA LinkConnStarts ==
  ASSUME Always, Settled, NEW g \in Groups, NEW c \in Conns, LinkConn(g, c)
  PROVE  Always' /\ Linking(g, c)'
  <1>   /\ c \in Usable /\ g \in alive /\ member[c] = Null
        /\ c \in Receivers => Members(g) \cap Receivers = {}
        /\ member' = [member EXCEPT ![c] = g] /\ todo' = Associate(g, c)
        /\ UNCHANGED <<objects, waiting, hot>>
    BY Zenon DEF LinkConn, Usable
  <1>2. \A d \in Conns : member'[d] = IF d = c THEN g ELSE member[d]
    BY Zenon DEF Always, TypeInv, TypeOK
  <1>   /\ Always' /\ Usable' = Usable
        /\ UNCHANGED <<alive, dying, link, outputs, hotlist, active>>
    <2>1. member' \in [Conns -> Groups \cup {Null}]
      BY Zenon DEF Always, TypeInv, TypeOK
    <2>2. \A d \in Conns : member'[d] # Null => d \in Usable /\ member'[d] \in alive
      BY <1>2, Zenon DEF Always, Live
    <2> QED BY <2>1, <2>2, OperationKeeps, Zenon
  <1>4. Joining(g, c)' /\ link'[c] = Null
    BY <1>2, Zenon DEF Joining, Settled, ConnsOk
  <1>5. GroupsOk({})'
    BY GroupKept, Zenon DEF Settled, GroupsOk
  <1>6. CASE c \in Receivers
    <2>1. link[g] = Null
      <3>1. \A r \in Receivers : link[r] # g
        BY <1>6, Zenon DEF Members, Settled, ConnsOk, Conns
      <3> QED BY <3>1 DEF Settled, GroupsOk, GroupOk, InputOk, Always, TypeInv
    <2>2. todo' = <<SetLink(g, c), SetLink(c, g)>>
      BY <1>6, Zenon DEF Associate
    <2>3. LinkRx1(g, c)'
      BY <1>4, <1>5, <1>6, <2>1, <2>2, Zenon DEF LinkRx1, SetLink
    <2> QED BY <2>3, Zenon DEF Linking
  <1>7. CASE c \notin Receivers
    <2>1. todo' = <<SetLink(c, g), AddOutput(g, c), SetHotOutputs(g)>>
      BY <1>7, Zenon DEF Associate
    <2>2. LinkTx1(g, c)'
      BY <1>4, <1>5, <1>7, <2>1, Zenon DEF LinkTx1, SetLink, AddOutput, SetHotOutputs, Conns
    <2> QED BY <2>2, Zenon DEF Linking
  <1> QED BY <1>6, <1>7, Zenon

\* A connection that is linked when an operation unlinks it.
LEMMA UnlinkStarts ==
  ASSUME Always, Always', Settled, NEW g \in Groups, NEW c \in Conns, link[c] = g,
         c \in Usable,
         member' = [member EXCEPT ![c] = Null], Usable' = Usable,
         UNCHANGED <<alive, dying, link, outputs, hotlist, active>>,
         todo' = Unlink(c) \/ todo' = Delete(c)
  PROVE  Unlinking(g, c)'
  <1>   g \in alive /\ g # Null
    BY MultipointAssumption, Zenon DEF Always, Live
  <1>2. Leaving(g, c)'
    <2>1. \A d \in Conns : member'[d] = IF d = c THEN Null ELSE member[d]
      BY Zenon DEF Always, TypeInv, TypeOK
    <2> QED BY <2>1, Zenon DEF Leaving, Settled, ConnsOk
  <1>3. GroupsOk({})'
    BY GroupKept, Zenon DEF Settled, GroupsOk
  <1>4. link[g] = c <=> c \in Receivers
    BY MultipointAssumption
       DEF Settled, GroupsOk, GroupOk, InputOk, Conns, Always, TypeInv
  <1>5. CASE c \in Receivers
    <2>1. \/ todo' = <<SetLink(g, Null), SetLink(c, Null)>>
          \/ todo' = <<SetLink(g, Null), SetLink(c, Null), Retire(c)>>
      BY <1>4, <1>5, UnlinkList, DeleteList, Zenon
    <2>2. UnlinkRx1(g, c)'
      BY <1>2, <1>3, <1>5, <2>1, Zenon DEF UnlinkRx1, SetLink, Retire
    <2> QED BY <2>2, Zenon DEF Unlinking
  <1>6. CASE c \notin Receivers
    <2>1. \/ todo' = <<EraseOutput(g, c), SetHotOutputs(g), SetLink(c, Null)>>
          \/ todo' = <<EraseOutput(g, c), SetHotOutputs(g), SetLink(c, Null), Retire(c)>>
      BY <1>4, <1>6, UnlinkList, DeleteList, Zenon
    <2>2. UnlinkTx1(g, c)'
      BY <1>2, <1>3, <1>6, <2>1, Zenon DEF UnlinkTx1, EraseOutput, SetHotOutputs, SetLink, Retire, Conns
    <2> QED BY <2>2, Zenon DEF Unlinking
  <1> QED BY <1>5, <1>6, Zenon

\* UnlinkConn starts the unlinking of a connection.
LEMMA UnlinkConnStarts ==
  ASSUME Always, Settled, NEW c \in Conns, UnlinkConn(c)
  PROVE  Always' /\ \E g \in Groups : Unlinking(g, c)'
  <1>   /\ c \in Usable /\ member[c] # Null
        /\ member' = [member EXCEPT ![c] = Null] /\ todo' = Unlink(c)
        /\ UNCHANGED <<objects, waiting, hot>>
    BY Zenon DEF UnlinkConn, Usable
  <1>2. /\ member' \in [Conns -> Groups \cup {Null}]
        /\ \A d \in Conns : member'[d] # Null => member'[d] = member[d]
    BY Zenon DEF Always, TypeInv, TypeOK
  <1>3. /\ Always' /\ Usable' = Usable
        /\ UNCHANGED <<alive, dying, link, outputs, hotlist, active>>
    <2>1. \A d \in Conns : member'[d] # Null => d \in Usable /\ member'[d] \in alive
      BY <1>2, Zenon DEF Always, Live
    <2> QED BY <1>2, <2>1, OperationKeeps, Zenon
  <1>4. PICK g \in Groups : link[c] = g
    BY Zenon DEF Settled, ConnsOk, Always, TypeInv
  <1>5. Unlinking(g, c)'
    BY <1>3, <1>4, UnlinkStarts, Zenon
  <1> QED BY <1>3, <1>5, Zenon

\* DeleteConn starts with the unlinking, if there is a link.
LEMMA DeleteConnStarts ==
  ASSUME Always, Settled, NEW c \in Conns, DeleteConn(c)
  PROVE  Always' /\ (Retiring(c)' \/ \E g \in Groups : Unlinking(g, c)')
  <1>   /\ c \in Usable
        /\ member' = [member EXCEPT ![c] = Null] /\ todo' = Delete(c)
        /\ UNCHANGED <<objects, waiting, hot>>
    BY Zenon DEF DeleteConn, Usable
  <1>   /\ member' \in [Conns -> Groups \cup {Null}]
        /\ \A d \in Conns : member'[d] = IF d = c THEN Null ELSE member[d]
    BY Zenon DEF Always, TypeInv, TypeOK
  <1>   /\ Always' /\ Usable' = Usable
        /\ UNCHANGED <<alive, dying, link, outputs, hotlist, active>>
    <2>1. \A d \in Conns : member'[d] # Null => d \in Usable /\ member'[d] \in alive
      BY Zenon DEF Always, Live
    <2> QED BY <2>1, OperationKeeps, Zenon
  <1>4. CASE link[c] = Null
    <2>1. todo' = <<Retire(c)>>
      BY <1>4, DeleteList, Zenon
    <2>2. ConnsOk({})'
      BY <1>4, Zenon DEF Settled, ConnsOk
    <2>3. GroupsOk({})'
      BY GroupKept, Zenon DEF Settled, GroupsOk
    <2> QED BY <2>1, <2>2, <2>3, Zenon DEF Retiring, Retire
  <1>5. CASE link[c] # Null
    <2>1. PICK g \in Groups : link[c] = g
      BY <1>5, Zenon DEF Always, TypeInv
    <2>2. Unlinking(g, c)'
      BY <2>1, UnlinkStarts, Zenon
    <2> QED BY <2>2, Zenon
  <1> QED BY <1>4, <1>5, Zenon

\* DeleteGroup starts with its input, if there is one.
LEMMA DeleteGroupStarts ==
  ASSUME Always, Settled, NEW g \in Groups, DeleteGroup(g)
  PROVE  Always' /\ \E S \in SUBSET Conns : Closing(g, S)'
  <1>1. PICK S \in SUBSET Conns : S = Members(g)
    BY Zenon DEF Members
  <1>   /\ g \in alive
        /\ member' = [c \in Conns |-> IF member[c] = g THEN Null ELSE member[c]]
        /\ todo' = DeleteGroupSteps(g, S)
        /\ UNCHANGED <<objects, waiting, hot>>
    BY <1>1, Zenon DEF DeleteGroup
  <1>   /\ \A d \in Conns : link[d] = member[d]
        /\ \A d \in Conns : d \in S <=> link[d] = g
        /\ \A d \in Conns : member'[d] = IF d \in S THEN Null ELSE link[d]
    BY <1>1, Zenon DEF Settled, ConnsOk, Members
  <1>   /\ Always' /\ Usable' = Usable
        /\ UNCHANGED <<alive, dying, link, outputs, hotlist, active>>
    <2>1. member' \in [Conns -> Groups \cup {Null}]
      BY Zenon DEF Always, TypeInv, TypeOK
    <2>2. \A d \in Conns : member'[d] # Null => d \in Usable /\ member'[d] \in alive
      BY Zenon DEF Always, Live
    <2> QED BY <2>1, <2>2, OperationKeeps, Zenon
  <1>5. Dropped(g, S)'
    <2>1. S \subseteq Usable
      BY MultipointAssumption DEF Always, Live
    <2> QED BY <2>1, MultipointAssumption, Zenon DEF Dropped, ConnsOk
  <1>6. GroupsOk({})'
    BY GroupKept, Zenon DEF Settled, GroupsOk
  <1>7. CASE link[g] = Null
    <2>1. todo' = <<SetState(g), SetLink(g, Null), ClearOutputs(g), ResetHotOutputs(g),
                    ClearOutputs(g), DeleteBridges(g, S), Free(g)>>
      BY <1>7, Cat043 DEF DeleteGroupSteps, GroupShutdown
    <2>2. NoSource(g, {})'
      BY <1>7, MultipointAssumption DEF Settled, GroupsOk, GroupOk, InputOk, NoSource
    <2>3. Cut(g, S)'
      BY <1>5, <1>6, <1>7, <2>2, Zenon DEF Cut, GroupsOk
    <2>4. Close1(g, S)'
      BY <2>1, <2>3, Zenon DEF Close1, SetState, SetLink, ClearOutputs, ResetHotOutputs, DeleteBridges, Free
    <2> QED BY <2>4, Zenon DEF Closing
  <1>8. CASE link[g] # Null
    <2>1. PICK r \in Receivers : link[g] = r
      BY <1>8, Zenon DEF Always, TypeInv
    <2>2. todo' = <<SetLink(r, Null), SetLink(g, Null), SetState(g), SetLink(g, Null),
                    ClearOutputs(g), ResetHotOutputs(g), ClearOutputs(g),
                    DeleteBridges(g, S), Free(g)>>
      BY <1>8, <2>1, Cat243 DEF DeleteGroupSteps, GroupShutdown
    <2>3. DropInput1(g, S, r)'
      BY <1>5, <1>6, <2>1, <2>2, Zenon
         DEF DropInput1, SetState, SetLink, ClearOutputs, ResetHotOutputs, DeleteBridges, Free
    <2> QED BY <2>3, Zenon DEF Closing
  <1> QED BY <1>7, <1>8, Zenon

\* The next bridge of a deleted group, or the end of the loop.
LEMMA NextBridgeStep ==
  ASSUME Always, NEW g \in Groups, NEW S \in SUBSET Conns, Loop(g, S), NextBridge
  PROVE  Always' /\ (Freeing(g)' \/ Emptying(g, S)')
  <1>   /\ Head(todo) = DeleteBridges(g, S) /\ Tail(todo) = <<Free(g)>>
        /\ Bare(g, S)
    BY DEF Loop
  <1>   /\ \/ S = {} /\ todo' = <<Free(g)>>
           \/ \E b \in S : todo' = Delete(b) \o <<DeleteBridges(g, S \ {b})>> \o <<Free(g)>>
        /\ UNCHANGED <<objects, member, waiting, hot>>
    <2>1. Head(todo)[2] = g /\ Head(todo)[3] = S
      BY DEF DeleteBridges
    <2> QED BY <2>1, Zenon DEF NextBridge
  <1>   /\ Always' /\ Usable' = Usable
        /\ UNCHANGED <<alive, dying, link, outputs, hotlist, active>>
    BY OperationKeeps, Zenon DEF Always, TypeInv, TypeOK, Live
  <1>   Bare(g, S)'
    BY DroppedKept, Zenon DEF Bare, Cut, NoOutputs
  <1>5. CASE S = {} /\ todo' = <<Free(g)>>
    BY <1>5, Zenon DEF Freeing, Free
  <1>6. ASSUME NEW b \in S, todo' = Delete(b) \o <<DeleteBridges(g, S \ {b})>> \o <<Free(g)>>
        PROVE  Emptying(g, S)'
    <2>1. CASE link[b] = Null
      <3>1. todo' = <<Retire(b), DeleteBridges(g, S \ {b}), Free(g)>>
        <4>1. Delete(b) = <<Retire(b)>>
          BY <2>1, DeleteList, Zenon
        <4> QED BY <1>6, <4>1, Cat111, Zenon
      <3>2. Bridge4(g, S, b)'
        BY <2>1, <3>1, Zenon DEF Bridge4, Retire, DeleteBridges, Free
      <3> QED BY <3>2, Zenon DEF Emptying
    <2>2. CASE link[b] # Null
      <3>1. link[b] = g /\ link[g] # b
        BY <2>2, MultipointAssumption DEF Bare, Cut, Dropped, Conns
      <3>2. b \in Transmitters
        BY <3>1, Zenon DEF Bare, Cut, NoSource, Conns
      <3>3. todo' = <<EraseOutput(g, b), SetHotOutputs(g), SetLink(b, Null),
                      Retire(b), DeleteBridges(g, S \ {b}), Free(g)>>
        <4>1. Delete(b) = <<EraseOutput(g, b), SetHotOutputs(g), SetLink(b, Null), Retire(b)>>
          BY <2>2, <3>1, DeleteList, Zenon
        <4> QED BY <1>6, <4>1, Cat411
      <3>4. Bridge1(g, S, b)'
        BY <3>2, <3>3, Zenon
           DEF Bridge1, EraseOutput, SetHotOutputs, SetLink, Retire, DeleteBridges, Free
      <3> QED BY <3>4, Zenon DEF Emptying
    <2> QED BY <2>1, <2>2, Zenon
  <1> QED BY <1>5, <1>6, Zenon

\* Execute in every phase.
LEMMA ExecuteStep ==
  ASSUME Always, Phase, Execute
  PROVE  Always' /\ Phase'
  <1>1. ~Settled
    BY Zenon DEF Settled, Execute
  <1>2. ASSUME NEW g \in Groups, NEW c \in Conns, Linking(g, c)
        PROVE  Always' /\ Phase'
    BY <1>2, LinkingStep, Zenon DEF Phase
  <1>3. ASSUME NEW g \in Groups, NEW c \in Conns, Unlinking(g, c)
        PROVE  Always' /\ Phase'
    BY <1>3, UnlinkingStep, Zenon DEF Phase
  <1>4. ASSUME NEW g \in Groups, NEW S \in SUBSET Conns, Closing(g, S)
        PROVE  Always' /\ Phase'
    BY <1>4, ClosingStep, Zenon DEF Phase
  <1>5. ASSUME NEW g \in Groups, NEW S \in SUBSET Conns, Emptying(g, S)
        PROVE  Always' /\ Phase'
    BY <1>5, EmptyingStep, Zenon DEF Phase
  <1>6. ASSUME NEW c \in Conns, Retiring(c)
        PROVE  Always' /\ Phase'
    BY <1>6, RetiringStep, Zenon DEF Phase
  <1>7. ASSUME NEW g \in Groups, Freeing(g)
        PROVE  Always' /\ Phase'
    BY <1>7, FreeingStep, Zenon DEF Phase
  <1> QED BY <1>1, <1>2, <1>3, <1>4, <1>5, <1>6, <1>7, Zenon DEF Phase

\* The loop over the bridges is the only phase that starts with "bridges".
LEMMA BridgesOnlyInLoop ==
  ASSUME Phase, todo # <<>>, Head(todo)[1] = "bridges"
  PROVE  \E g \in Groups, S \in SUBSET Conns : Loop(g, S)
  <1>1. \A g, c : ~Linking(g, c)
    BY DEF Linking, LinkRx1, LinkRx2, LinkTx1, LinkTx2, LinkTx3,
           SetLink, AddOutput, SetHotOutputs
  <1>2. ASSUME NEW g, NEW c, Unlinking(g, c)
        PROVE  FALSE
    <2>1. CASE UnlinkRx1(g, c)
      BY <2>1 DEF UnlinkRx1, SetLink
    <2>2. CASE UnlinkRx2(g, c)
      BY <2>2 DEF UnlinkRx2, SetLink
    <2>3. CASE UnlinkTx1(g, c)
      BY <2>3 DEF UnlinkTx1, EraseOutput
    <2>4. CASE UnlinkTx2(g, c)
      BY <2>4 DEF UnlinkTx2, SetHotOutputs
    <2>5. CASE UnlinkTx3(g, c)
      BY <2>5 DEF UnlinkTx3, SetLink
    <2> QED BY <1>2, <2>1, <2>2, <2>3, <2>4, <2>5, Zenon DEF Unlinking
  <1>3. \A g, S : ~Closing(g, S)
    BY DEF Closing, DropInput1, DropInput2, Close1, Close2, Close3, Close4, Close5,
           SetLink, SetState, ClearOutputs, ResetHotOutputs
  <1>4. \A g, S, b : /\ ~Bridge1(g, S, b) /\ ~Bridge2(g, S, b)
                     /\ ~Bridge3(g, S, b) /\ ~Bridge4(g, S, b)
    BY DEF Bridge1, Bridge2, Bridge3, Bridge4, EraseOutput, SetHotOutputs, SetLink, Retire
  <1>5. \A c : ~Retiring(c) /\ ~Freeing(c)
    BY DEF Retiring, Retire, Freeing, Free
  <1> QED BY <1>1, <1>2, <1>3, <1>4, <1>5, Zenon DEF Phase, Settled, Emptying

\* The end of the deletion of a connection that has left its registry.
LEMMA DestroyConnStep ==
  ASSUME Always, Phase, NEW c \in Conns, DestroyConn(c)
  PROVE  Always' /\ Phase'
  <1>   /\ c \in dying /\ (c \in Receivers => hpc[c] = "idle")
        /\ alive' = alive \ {c} /\ dying' = dying \ {c}
        /\ UNCHANGED <<link, outputs, hotlist, active, member, todo, waiting, hpc, hlink, hout>>
    BY Zenon DEF DestroyConn, hot
  <1>   Usable' = Usable
    BY Zenon DEF Usable
  <1>   \A g \in Groups : g \in alive' <=> g \in alive
    BY MultipointAssumption, Zenon DEF Conns
  <1>4. TypeInv'
    BY Zenon DEF Always, TypeInv, TypeOK
  <1>5. Live'
    <2>1. dying' \subseteq alive'
      BY Zenon DEF Always, Live
    <2>2. \A d \in Conns : /\ link[d] # Null => link[d] \in Groups
                           /\ member[d] # Null => member[d] \in Groups
      BY Zenon DEF Always, TypeInv, TypeOK
    <2> QED BY <2>1, <2>2, Zenon DEF Always, Live
  <1>6. HotInv'
    <2>1. \A r \in Receivers : InLink(r)' = InLink(r) /\ InOutputs(r)' = InOutputs(r)
      BY Zenon DEF InLink, InOutputs
    <2>2. \A r \in Receivers : InLink(r) => r # c
      BY Zenon DEF InLink
    <2> QED BY <2>1, <2>2, Zenon DEF Always, HotInv, FrameInv
  <1>7. Phase'
    BY PhaseKept, Zenon
  <1> QED BY <1>4, <1>5, <1>6, <1>7, Zenon DEF Always
-----------------------------------------------------------------------------
\* The empty proxy satisfies the invariant.
LEMMA InitIInv == Init => IInv
  <1> SUFFICES ASSUME Init PROVE IInv
    BY Zenon
  <1>   NoOutputs \in Lists /\ \A c \in Transmitters : NoOutputs[c] = 0
    BY Zenon DEF NoOutputs, Lists
  <1>2. TypeInv
    BY Zenon DEF Init, TypeInv, TypeOK, Objects, Conns
  <1>3. Live
    BY DEF Init, Live, Objects, Conns
  <1>4. HotInv
    BY DEF Init, HotInv, FrameInv, InLink, InOutputs
  <1>5. Settled
    <2>1. ConnsOk({})
      BY Zenon DEF Init, ConnsOk, Objects
    <2>2. ASSUME NEW g \in Groups
          PROVE  GroupOk(g)
      BY MultipointAssumption, Zenon
         DEF Init, GroupOk, InputOk, OutputsOk, HotOk, Listed, Objects, Conns
    <2> QED BY <2>1, <2>2, Zenon DEF Init, Settled, GroupsOk
  <1> QED BY <1>2, <1>3, <1>4, <1>5, Zenon DEF IInv, Phase

\* Every step keeps the invariant: one case for each action.
LEMMA Inductive == IInv /\ [Next]_vars => IInv'
  <1> SUFFICES ASSUME IInv, [Next]_vars PROVE IInv'
    BY Zenon
  <1>0. Always /\ Phase
    BY Zenon DEF IInv, Always
  <1> SUFFICES Always' /\ Phase'
    BY Zenon DEF IInv, Always
  <1>1. ASSUME NEW g \in Groups, AddGroup(g)
        PROVE  Always' /\ Phase'
    BY <1>0, <1>1, SettledWhenIdle, AddGroupStep, Zenon DEF AddGroup, Phase
  <1>2. ASSUME NEW g \in Groups, DeleteGroup(g)
        PROVE  Always' /\ Phase'
    BY <1>0, <1>2, SettledWhenIdle, DeleteGroupStarts, Zenon DEF DeleteGroup, Phase
  <1>3. ASSUME NEW c \in Conns, AddConn(c)
        PROVE  Always' /\ Phase'
    BY <1>0, <1>3, SettledWhenIdle, AddConnStep, Zenon DEF AddConn, Phase
  <1>4. ASSUME NEW c \in Conns, UnlinkConn(c)
        PROVE  Always' /\ Phase'
    BY <1>0, <1>4, SettledWhenIdle, UnlinkConnStarts, Zenon DEF UnlinkConn, Phase
  <1>5. ASSUME NEW c \in Conns, DeleteConn(c)
        PROVE  Always' /\ Phase'
    BY <1>0, <1>5, SettledWhenIdle, DeleteConnStarts, Zenon DEF DeleteConn, Phase
  <1>6. ASSUME NEW c \in Conns, DestroyConn(c)
        PROVE  Always' /\ Phase'
    BY <1>0, <1>6, DestroyConnStep, Zenon
  <1>7. ASSUME NEW g \in Groups, NEW c \in Conns, LinkConn(g, c)
        PROVE  Always' /\ Phase'
    BY <1>0, <1>7, SettledWhenIdle, LinkConnStarts, Zenon DEF LinkConn, Phase
  <1>8. CASE Execute
    BY <1>0, <1>8, ExecuteStep, Zenon
  <1>9. CASE NextBridge
    <2>1. PICK g \in Groups, S \in SUBSET Conns : Loop(g, S)
      BY <1>0, <1>9, BridgesOnlyInLoop, Zenon DEF NextBridge
    <2> QED BY <1>0, <1>9, <2>1, NextBridgeStep, Zenon DEF Phase
  <1>10. ASSUME NEW r \in Receivers, Transmit(r)
         PROVE  Always' /\ Phase'
    BY <1>0, <1>10, TransmitStep, Zenon
  <1>11. ASSUME NEW r \in Receivers, HotPath(r)
         PROVE  Always' /\ Phase'
    <2>1. CASE GroupOnReceive(r)
      BY <1>0, <2>1, GroupOnReceiveStep, Zenon
    <2>2. CASE GetOutputsLock(r)
      BY <1>0, <2>2, GetOutputsLockStep, Zenon
    <2>3. CASE DoReceive(r)
      BY <1>0, <2>3, DoReceiveStep, Zenon
    <2>4. CASE OutputsUnlock(r)
      BY <1>0, <2>4, OutputsUnlockStep, Zenon
    <2>5. CASE TransmitDone(r)
      BY <1>0, <2>5, LinkUnlockStep, Zenon DEF TransmitDone, InOutputs
    <2> QED BY <1>11, <2>1, <2>2, <2>3, <2>4, <2>5 DEF HotPath
  <1>12. CASE UNCHANGED vars
    <2>1. UNCHANGED <<objects, waiting, hot>> /\ member' = member /\ todo' = todo
      BY <1>12, Zenon DEF vars, objects, hot
    <2>2. Always' /\ Usable' = Usable
      BY <1>0, <2>1, OperationKeeps, Zenon DEF Always, TypeInv, TypeOK, Live
    <2>3. Phase'
      BY <1>0, <1>12, <2>2, PhaseKept, Zenon DEF vars
    <2> QED BY <2>2, <2>3, Zenon
  <1> QED BY <1>1, <1>2, <1>3, <1>4, <1>5, <1>6, <1>7, <1>8, <1>9, <1>10, <1>11, <1>12
          DEF Next, Control

\* The invariant holds in every reachable state.
LEMMA Invariance == Spec => []IInv
  BY InitIInv, Inductive, PTL DEF Spec

\* A frame on its way never meets a deleted connection, group or list of
\* outputs, however many receivers, outputs and groups there are: what
\* set_link() and set_hotpath_outputs() wait for is enough for the deletions.
THEOREM NoUseAfterFreeHolds == Spec => []NoUseAfterFree
  <1>1. IInv => NoUseAfterFree
    BY Zenon DEF IInv, HotInv, FrameInv, NoUseAfterFree, Usable
  <1> QED BY Invariance, <1>1, PTL

\* No two hot paths are inside the outputs section of one group, which
\* DataplaneAtomicPtr requires of its users: the old input of a group has left
\* before set_link() returns, and a new one is linked after that.
THEOREM OneHotThreadHolds == Spec => []OneHotThread
  <1>1. IInv => OneHotThread
    BY Zenon DEF IInv, HotInv, OneHotThread, InLink, InOutputs
  <1> QED BY Invariance, <1>1, PTL

\* Between operations of the control threads, the links of the connections,
\* the input and the outputs of the groups and the config agree.
THEOREM LinksAgreeHolds == Spec => []LinksAgree
  <1>1. ASSUME IInv
        PROVE  LinksAgree
    <2>1. ASSUME Idle
          PROVE  Settled /\ Live
      BY <1>1, <2>1, SettledWhenIdle, Zenon DEF IInv
    <2>2. TypeOK
      BY <1>1, Zenon DEF IInv, TypeInv
    <2> QED BY <2>1, <2>2, MultipointAssumption
            DEF LinksAgree, Settled, Live, Usable, ConnsOk, GroupsOk, GroupOk, InputOk, OutputsOk,
                HotOk, Listed, Conns
  <1> QED BY Invariance, <1>1, PTL
=============================================================================
