---------------------- MODULE PipelineDefinitionProofs ----------------------
(***************************************************************************)
(* Proofs about the definitions that are accepted, for every set of kinds, *)
(* segments and definitions.                                               *)
(***************************************************************************)
EXTENDS PipelineDefinitionProperties, TLAPS

-----------------------------------------------------------------------------
(* Types                                                                   *)

THEOREM TypeCorrect == Spec => []DefinitionTypeOK
<1>1. Init => DefinitionTypeOK
  <2> SUFFICES ASSUME Init PROVE DefinitionTypeOK
    OBVIOUS
  <2>1. order = <<>> /\ remaining = {} /\ ready = {} /\ phase = "new" /\ definition \in Definitions
    BY DEF Init
  <2>2. <<>> \in Seq(KindsOf(definition))
    OBVIOUS
  <2> QED BY <2>1, <2>2 DEF DefinitionTypeOK, Refused
<1>2. DefinitionTypeOK /\ [Next]_vars => DefinitionTypeOK'
  <2> SUFFICES ASSUME DefinitionTypeOK, [Next]_vars PROVE DefinitionTypeOK'
    OBVIOUS
  <2> USE DEF DefinitionTypeOK
  <2>1. CASE UNCHANGED vars
    BY <2>1 DEF vars, KindsOf
  <2>2. CASE RejectMalformed \/ RejectOverlap \/ RejectBinding \/ RejectCycle \/ Accept
    BY <2>2 DEF RejectMalformed, RejectOverlap, RejectBinding, RejectCycle, Accept,
         EndAs, Refused, KindsOf
  <2>3. CASE StartSorting
    BY <2>3 DEF StartSorting, KindsOf
  <2>4. CASE Layer
    BY <2>4 DEF Layer, KindsOf
  <2>5. CASE AppendNext
    <3>1. PICK k \in ready : /\ order' = Append(order, k)
                             /\ ready' = ready \ {k}
                             /\ remaining' = remaining \ {k}
      BY <2>5 DEF AppendNext
    <3>2. definition' = definition /\ phase' = phase
      BY <2>5 DEF AppendNext
    <3>3. order' \in Seq(KindsOf(definition))
      BY <3>1
    <3> QED BY <3>1, <3>2, <3>3 DEF KindsOf
  <2> QED BY <2>1, <2>2, <2>3, <2>4, <2>5 DEF Next
<1> QED BY <1>1, <1>2, PTL DEF Spec

-----------------------------------------------------------------------------
(* The keys of an accepted definition.  Namespaces are compared template   *)
(* by template; that this separates the keys themselves takes the places   *)
(* where two templates cannot meet.                                        *)

\* Keys of slots whose templates do not overlap are unrelated.
LEMMA ApartMeansUnrelated ==
    ASSUME NEW left, NEW right, ~Overlap(left, right),
           NEW x \in ItemKeys(left), NEW y \in ItemKeys(right)
    PROVE  ~Related(KeyFor(left, x), KeyFor(right, y))
<1>1. PICK i \in DOMAIN left.template \cap DOMAIN right.template :
          ~PartsMeet(left, right, i)
  BY DEF Overlap
<1> DEFINE a == left.template[i]
           b == right.template[i]
<1>2. /\ i \in DOMAIN KeyFor(left, x) \cap DOMAIN KeyFor(right, y)
      /\ KeyFor(left, x)[i] = IF a = Item THEN x ELSE a
      /\ KeyFor(right, y)[i] = IF b = Item THEN y ELSE b
  BY DEF KeyFor
<1>3. KeyFor(left, x)[i] # KeyFor(right, y)[i]
  <2>1. CASE a # Item /\ b # Item
    BY <1>1, <1>2, <2>1 DEF PartsMeet
  <2>2. CASE a = Item /\ b # Item
    <3>1. left.items # {} /\ b \notin left.items
      BY <1>1, <2>2 DEF PartsMeet
    <3>2. x \in left.items
      BY <3>1 DEF ItemKeys
    <3> QED BY <1>2, <2>2, <3>1, <3>2
  <2>3. CASE a # Item /\ b = Item
    <3>1. right.items # {} /\ a \notin right.items
      BY <1>1, <2>3 DEF PartsMeet
    <3>2. y \in right.items
      BY <3>1 DEF ItemKeys
    <3> QED BY <1>2, <2>3, <3>1, <3>2
  <2>4. CASE a = Item /\ b = Item
    <3>1. left.items # {} /\ right.items # {} /\ left.items \cap right.items = {}
      BY <1>1, <2>4 DEF PartsMeet
    <3>2. x \in left.items /\ y \in right.items
      BY <3>1 DEF ItemKeys
    <3> QED BY <1>2, <2>4, <3>1, <3>2
  <2> QED BY <2>1, <2>2, <2>3, <2>4
<1> QED BY <1>2, <1>3 DEF Related

\* Sorting starts when the checks of the slots and inputs have passed, and nothing of what
\* they looked at changes any more.
Checked ==
    phase \in {"sorting", "cyclic", "accepted"} =>
        /\ WellFormed(definition)
        /\ NamespacesSeparate(definition)
        /\ BindingsHold(definition)

LEMMA CheckedHolds == Spec => []Checked
<1>1. Init => Checked
  BY DEF Init, Checked
<1>2. Checked /\ [Next]_vars => Checked'
  <2> SUFFICES ASSUME Checked, [Next]_vars, phase' \in {"sorting", "cyclic", "accepted"}
               PROVE  /\ WellFormed(definition) /\ NamespacesSeparate(definition)
                      /\ BindingsHold(definition)
                      /\ definition' = definition
    BY DEF Checked
  <2>1. CASE StartSorting
    BY <2>1 DEF StartSorting
  <2>2. CASE Layer \/ AppendNext \/ RejectCycle \/ Accept
    BY <2>2 DEF Layer, AppendNext, RejectCycle, Accept, EndAs, Checked
  <2>3. CASE RejectMalformed \/ RejectOverlap \/ RejectBinding
    BY <2>3 DEF RejectMalformed, RejectOverlap, RejectBinding, EndAs
  <2>4. CASE UNCHANGED vars
    BY <2>4 DEF vars, Checked
  <2> QED BY <2>1, <2>2, <2>3, <2>4 DEF Next
<1> QED BY <1>1, <1>2, PTL DEF Spec

\* No two slots of an accepted definition have related keys
\* (contracts.py:145-149), whatever the item keys.
THEOREM KeysNeverMeet == Spec => []KeysSeparate
<1>1. Checked => KeysSeparate
  <2> SUFFICES ASSUME Checked, phase = "accepted",
                      NEW p \in Places(definition), NEW q \in Places(definition), p # q,
                      NEW x \in ItemKeys(SlotAt(definition, p)),
                      NEW y \in ItemKeys(SlotAt(definition, q))
               PROVE  ~Related(KeyFor(SlotAt(definition, p), x),
                               KeyFor(SlotAt(definition, q), y))
    BY DEF KeysSeparate
  <2>1. ~Overlap(SlotAt(definition, p), SlotAt(definition, q))
    BY DEF Checked, NamespacesSeparate
  <2> QED BY <2>1, ApartMeansUnrelated
<1> QED BY <1>1, CheckedHolds, PTL

\* item_key_from gives back the item a key was made from
\* (contracts.py:78-92), since a fan-out template has a segment for it.
THEOREM KeysKeepTheirItem == Spec => []KeyIdentifiesItem
<1>1. Checked => KeyIdentifiesItem
  <2> SUFFICES ASSUME Checked, phase = "accepted", NEW p \in Places(definition),
                      SlotAt(definition, p).fanout,
                      NEW x \in ItemKeys(SlotAt(definition, p))
               PROVE  ItemKeyFrom(SlotAt(definition, p), KeyFor(SlotAt(definition, p), x)) = {x}
    BY DEF KeyIdentifiesItem
  <2> DEFINE slot == SlotAt(definition, p)
  <2>1. SlotWellFormed(slot)
    BY DEF Checked, WellFormed
  <2> HIDE DEF slot
  <2>2. slot.fanout /\ x \in ItemKeys(slot)
    BY DEF slot
  <2>3. PICK i \in DOMAIN slot.template : slot.template[i] = Item
    BY <2>1, <2>2 DEF SlotWellFormed, Dynamic
  <2>4. ASSUME NEW y, KeyFor(slot, y) = KeyFor(slot, x) PROVE y = x
    <3>1. KeyFor(slot, y)[i] = y /\ KeyFor(slot, x)[i] = x
      BY <2>3 DEF KeyFor
    <3> QED BY <3>1, <2>4
  <2>5. ItemKeyFrom(slot, KeyFor(slot, x)) = {x}
    BY <2>2, <2>4 DEF ItemKeyFrom
  <2> QED BY <2>5 DEF slot
<1> QED BY <1>1, CheckedHolds, PTL

-----------------------------------------------------------------------------
(* The order.  What the two properties need while the loop is running:     *)
(* what is ordered no longer remains, what does not remain is ordered, a   *)
(* layer waits for nothing that remains, and whoever waits in a circle     *)
(* remains.                                                                *)

\* Nothing is ordered before the sorting starts.
Unsorted ==
    phase \notin {"sorting", "cyclic", "accepted"} => order = <<>> /\ ready = {}

OrderedOrRemaining ==
    phase \in {"sorting", "cyclic", "accepted"} =>
        /\ \A i \in DOMAIN order : order[i] \notin remaining
        /\ \A k \in KindsOf(definition) :
              k \in remaining \/ \E i \in DOMAIN order : order[i] = k

LayerIsIndependent == \A k \in ready : Independent(k)

CirclesRemain ==
    phase \in {"sorting", "cyclic", "accepted"} =>
        \A kinds \in SUBSET KindsOf(definition) :
            WaitInACircle(kinds) => kinds \subseteq remaining

Ended ==
    /\ phase = "cyclic" => remaining # {} /\ Stuck
    /\ phase = "accepted" => remaining = {}

OrderInv ==
    /\ DefinitionTypeOK /\ Unsorted /\ OrderedOrRemaining /\ LayerIsIndependent
    /\ CirclesRemain /\ Ended /\ OrderRespectsInputs

LEMMA KindsNotExternal == ASSUME DefinitionTypeOK PROVE External \notin KindsOf(definition)
BY ItemAssumption, DefinitionAssumption DEF DefinitionTypeOK, KindsOf

\* The reference looks at nothing but the definition.
LEMMA SameDefinition ==
    ASSUME definition' = definition
    PROVE  /\ KindsOf(definition)' = KindsOf(definition)
           /\ \A k, l : ReadsOutputOf(k, l)' <=> ReadsOutputOf(k, l)
           /\ \A kinds : WaitInACircle(kinds)' <=> WaitInACircle(kinds)
           /\ \A k : Dependencies(definition, k)' = Dependencies(definition, k)
<1>1. \A k, l : ReadsOutputOf(k, l)' <=> ReadsOutputOf(k, l)
  BY DEF ReadsOutputOf
<1>2. \A kinds : WaitInACircle(kinds)' <=> WaitInACircle(kinds)
  BY <1>1 DEF WaitInACircle
<1> QED BY <1>1, <1>2

\* A step that reads an output of another one depends on it.
LEMMA ReadersDepend ==
    ASSUME DefinitionTypeOK, NEW k, NEW l \in KindsOf(definition), ReadsOutputOf(k, l)
    PROVE  l \in Dependencies(definition, k)
BY KindsNotExternal DEF ReadsOutputOf, Dependencies

LEMMA DependentsRead ==
    ASSUME NEW k, NEW l \in Dependencies(definition, k)
    PROVE  ReadsOutputOf(k, l)
BY DEF ReadsOutputOf, Dependencies

LEMMA OrderStarts == Init => OrderInv
<1> SUFFICES ASSUME Init PROVE OrderInv
  OBVIOUS
<1>1. order = <<>> /\ remaining = {} /\ ready = {} /\ phase = "new" /\ definition \in Definitions
  BY DEF Init
<1>2. DOMAIN order = {}
  BY <1>1
<1>3. <<>> \in Seq(KindsOf(definition))
  OBVIOUS
<1>4. DefinitionTypeOK
  BY <1>1, <1>3 DEF DefinitionTypeOK, Refused
<1> QED BY <1>1, <1>2, <1>4 DEF OrderInv, Unsorted, OrderedOrRemaining,
          LayerIsIndependent, CirclesRemain, Ended, OrderRespectsInputs

\* Steps that leave the order alone.
LEMMA OrderStays ==
    ASSUME OrderInv, definition' = definition, order' = order, DefinitionTypeOK',
           phase' # "accepted"
    PROVE  OrderRespectsInputs'
BY DEF OrderInv, OrderRespectsInputs, ReadsOutputOf, KindsOf

LEMMA RefusalKeeps ==
    ASSUME OrderInv, DefinitionTypeOK',
           RejectMalformed \/ RejectOverlap \/ RejectBinding
    PROVE  OrderInv'
<1>1. /\ phase' \in {"malformed", "overlapping", "unbound"} /\ phase = "new"
      /\ UNCHANGED <<definition, remaining, ready, order>>
  BY DEF RejectMalformed, RejectOverlap, RejectBinding, EndAs
<1>2. OrderRespectsInputs'
  BY <1>1, OrderStays
<1> QED BY <1>1, <1>2 DEF OrderInv, Unsorted, OrderedOrRemaining, LayerIsIndependent,
          Independent, CirclesRemain, Ended

LEMMA StartKeeps ==
    ASSUME OrderInv, DefinitionTypeOK', StartSorting
    PROVE  OrderInv'
<1>1. /\ phase' = "sorting" /\ phase = "new" /\ remaining' = KindsOf(definition)
      /\ UNCHANGED <<definition, ready, order>>
  BY DEF StartSorting
<1>2. order = <<>>
  BY <1>1 DEF OrderInv, Unsorted
<1>3. DOMAIN order = {}
  BY <1>2
<1>4. KindsOf(definition)' = KindsOf(definition)
  BY <1>1 DEF KindsOf
<1>5. OrderRespectsInputs'
  BY <1>1, OrderStays
<1>6. ready' = {}
  BY <1>1 DEF OrderInv, Unsorted
<1> QED BY <1>1, <1>3, <1>4, <1>5, <1>6 DEF OrderInv, Unsorted, OrderedOrRemaining,
          LayerIsIndependent, Independent, CirclesRemain, Ended

LEMMA LayerKeeps ==
    ASSUME OrderInv, DefinitionTypeOK', Layer
    PROVE  OrderInv'
<1>1. /\ phase' = "sorting" /\ phase = "sorting"
      /\ ready' = {k \in remaining : Independent(k)}
      /\ UNCHANGED <<definition, remaining, order>>
  BY DEF Layer
<1>2. OrderRespectsInputs'
  BY <1>1, OrderStays
<1>3. LayerIsIndependent'
  BY <1>1 DEF LayerIsIndependent, Independent
<1>4. OrderedOrRemaining' /\ CirclesRemain'
  BY <1>1, SameDefinition DEF OrderInv, OrderedOrRemaining, CirclesRemain
<1> QED BY <1>1, <1>2, <1>3, <1>4 DEF OrderInv, Unsorted, Ended

LEMMA EndKeeps ==
    ASSUME OrderInv, DefinitionTypeOK', RejectCycle \/ Accept
    PROVE  OrderInv'
<1>1. /\ phase = "sorting" /\ phase' \in {"cyclic", "accepted"}
      /\ UNCHANGED <<definition, remaining, ready, order>>
      /\ phase' = "cyclic" => remaining # {} /\ Stuck
      /\ phase' = "accepted" => remaining = {}
  BY DEF RejectCycle, Accept, EndAs
<1>2. OrderedOrRemaining' /\ CirclesRemain' /\ LayerIsIndependent'
  BY <1>1, SameDefinition DEF OrderInv, OrderedOrRemaining, CirclesRemain,
       LayerIsIndependent, Independent
<1>3. OrderRespectsInputs'
  BY <1>1 DEF OrderInv, OrderedOrRemaining, OrderRespectsInputs, ReadsOutputOf, KindsOf
<1>4. Ended'
  BY <1>1 DEF Ended, Stuck, Independent
<1> QED BY <1>1, <1>2, <1>3, <1>4 DEF OrderInv, Unsorted

LEMMA AppendKeeps ==
    ASSUME OrderInv, DefinitionTypeOK', AppendNext
    PROVE  OrderInv'
<1>1. PICK k \in ready : /\ order' = Append(order, k)
                         /\ ready' = ready \ {k}
                         /\ remaining' = remaining \ {k}
  BY DEF AppendNext
<1>2. definition' = definition /\ phase' = "sorting" /\ phase = "sorting"
  BY DEF AppendNext
<1>3. order \in Seq(KindsOf(definition)) /\ k \in remaining /\ k \in KindsOf(definition)
      /\ Independent(k)
  BY <1>1 DEF OrderInv, DefinitionTypeOK, LayerIsIndependent
<1>4. /\ DOMAIN order' = 1..(Len(order) + 1)
      /\ DOMAIN order = 1..Len(order) /\ Len(order) \in Nat
      /\ \A i \in 1..Len(order) : order'[i] = order[i]
      /\ order'[Len(order) + 1] = k
  BY <1>1, <1>3
<1>5. /\ \A i \in DOMAIN order : order[i] \notin remaining
      /\ \A l \in KindsOf(definition) :
            l \in remaining \/ \E i \in DOMAIN order : order[i] = l
  BY <1>2 DEF OrderInv, OrderedOrRemaining
<1>6. OrderedOrRemaining'
  <2>1. \A i \in DOMAIN order' : order'[i] \notin remaining'
    BY <1>1, <1>4, <1>5
  <2>2. ASSUME NEW l \in KindsOf(definition), l \notin remaining'
        PROVE  \E i \in DOMAIN order' : order'[i] = l
    BY <1>1, <1>4, <1>5, <2>2
  <2> QED BY <1>2, <2>1, <2>2 DEF OrderedOrRemaining, KindsOf
<1>7. LayerIsIndependent'
  BY <1>1, <1>2 DEF OrderInv, LayerIsIndependent, Independent
<1>8. CirclesRemain'
  <2> SUFFICES ASSUME NEW kinds \in SUBSET KindsOf(definition), WaitInACircle(kinds)
               PROVE  kinds \subseteq remaining \ {k}
    BY <1>1, <1>2, SameDefinition DEF CirclesRemain
  <2>1. kinds \subseteq remaining
    BY <1>2 DEF OrderInv, CirclesRemain
  <2>2. k \notin kinds
    <3> SUFFICES ASSUME k \in kinds PROVE FALSE
      OBVIOUS
    <3>1. PICK l \in kinds : ReadsOutputOf(k, l)
      BY DEF WaitInACircle
    <3>2. l \in Dependencies(definition, k)
      BY <3>1, ReadersDepend DEF OrderInv
    <3> QED BY <1>3, <2>1, <3>1, <3>2 DEF Independent
  <2> QED BY <2>1, <2>2
<1>9. OrderRespectsInputs'
  <2>1. ASSUME NEW i \in DOMAIN order', NEW l \in KindsOf(definition),
               ReadsOutputOf(order'[i], l)
        PROVE  \E j \in 1..(i - 1) : order'[j] = l
    <3>1. CASE i \in 1..Len(order)
      <4>1. order'[i] = order[i]
        BY <1>4, <3>1
      <4>2. PICK j \in 1..(i - 1) : order[j] = l
        BY <1>4, <2>1, <3>1, <4>1 DEF OrderInv, OrderRespectsInputs
      <4>3. j \in 1..Len(order)
        BY <1>4, <3>1
      <4> QED BY <1>4, <4>2, <4>3
    <3>2. CASE i = Len(order) + 1
      <4>1. l \in Dependencies(definition, k)
        BY <1>4, <2>1, <3>2, ReadersDepend DEF OrderInv
      <4>2. PICK j \in DOMAIN order : order[j] = l
        BY <1>3, <1>5, <4>1 DEF Independent
      <4> QED BY <1>4, <3>2, <4>2
    <3> QED BY <1>4, <3>1, <3>2
  <2>2. ASSUME NEW i \in DOMAIN order', NEW j \in DOMAIN order', order'[i] = order'[j]
        PROVE  i = j
    <3>1. \A m \in DOMAIN order : order[m] # k
      BY <1>3, <1>5
    <3>2. CASE i \in 1..Len(order) /\ j \in 1..Len(order)
      BY <1>4, <2>2, <3>2 DEF OrderInv, OrderRespectsInputs
    <3>3. CASE ~(i \in 1..Len(order) /\ j \in 1..Len(order))
      BY <1>4, <2>2, <3>1, <3>3
    <3> QED BY <3>2, <3>3
  <2> QED BY <1>2, <2>1, <2>2 DEF OrderRespectsInputs, ReadsOutputOf, KindsOf
<1> QED BY <1>2, <1>6, <1>7, <1>8, <1>9 DEF OrderInv, Unsorted, Ended

LEMMA OrderInvHolds == Spec => []OrderInv
<1>1. OrderInv /\ DefinitionTypeOK' /\ [Next]_vars => OrderInv'
  <2> SUFFICES ASSUME OrderInv, DefinitionTypeOK', [Next]_vars PROVE OrderInv'
    OBVIOUS
  <2>1. CASE UNCHANGED vars
    <3>1. UNCHANGED <<definition, phase, remaining, ready, order>>
      BY <2>1 DEF vars
    <3>2. OrderedOrRemaining' /\ CirclesRemain' /\ OrderRespectsInputs'
      BY <3>1, SameDefinition DEF OrderInv, OrderedOrRemaining, CirclesRemain,
           OrderRespectsInputs
    <3>3. LayerIsIndependent' /\ Ended'
      BY <3>1 DEF OrderInv, LayerIsIndependent, Ended, Stuck, Independent
    <3> QED BY <3>1, <3>2, <3>3 DEF OrderInv, Unsorted
  <2> QED BY <2>1, RefusalKeeps, StartKeeps, LayerKeeps, AppendKeeps, EndKeeps DEF Next
<1> QED BY <1>1, OrderStarts, TypeCorrect, PTL DEF Spec

\* Every step comes after the steps whose outputs it reads, once, and none is
\* missing (topological_steps, contracts.py:167-184).
THEOREM OrderIsSound == Spec => []OrderRespectsInputs
<1>1. OrderInv => OrderRespectsInputs
  BY DEF OrderInv
<1> QED BY <1>1, OrderInvHolds, PTL

\* A definition is refused for a cycle exactly when it has one: the kinds that
\* are left wait for one another, and a circle could never have been left.
THEOREM CyclesAreFound == Spec => []CycleIsReal
<1>1. ASSUME OrderInv PROVE CycleIsReal
  <2>1. ASSUME phase = "cyclic"
        PROVE  \E kinds \in SUBSET KindsOf(definition) : WaitInACircle(kinds)
    <3>1. remaining # {} /\ Stuck /\ remaining \in SUBSET KindsOf(definition)
      BY <1>1, <2>1 DEF OrderInv, Ended, DefinitionTypeOK
    <3>2. \A k \in remaining : \E l \in remaining : l \in Dependencies(definition, k)
      BY <3>1 DEF Stuck, Independent
    <3>3. WaitInACircle(remaining)
      BY <3>1, <3>2, DependentsRead DEF WaitInACircle
    <3> QED BY <3>1, <3>3
  <2>2. ASSUME phase = "accepted", NEW kinds \in SUBSET KindsOf(definition)
        PROVE  ~WaitInACircle(kinds)
    BY <1>1, <2>2 DEF OrderInv, CirclesRemain, Ended, WaitInACircle
  <2> QED BY <2>1, <2>2 DEF CycleIsReal
<1> QED BY <1>1, OrderInvHolds, PTL

-----------------------------------------------------------------------------
(* What StepRun takes for granted.                                         *)

LEMMA NodesHaveSlots ==
    ASSUME NEW d \in Definitions, WellFormed(d), NEW n \in 0..Len(d.steps)
    PROVE  /\ DOMAIN d.steps = 1..Len(d.steps)
           /\ 1 \in DOMAIN Node(d, n)
<1>1. /\ d.externals \in Seq({d.externals[i] : i \in DOMAIN d.externals})
      /\ d.steps \in Seq({d.steps[i] : i \in DOMAIN d.steps})
  BY DefinitionAssumption
<1>2. DOMAIN d.steps = 1..Len(d.steps)
  BY <1>1
<1>3. CASE n = 0
  BY <1>1, <1>2, <1>3 DEF Node, WellFormed
<1>4. CASE n # 0
  <2>1. n \in DOMAIN d.steps
    BY <1>2, <1>4
  <2> DEFINE out == d.steps[n].outputs
  <2>2. out \in Seq({out[i] : i \in DOMAIN out})
    BY <2>1, DefinitionAssumption
  <2>3. out # <<>>
    BY <2>1 DEF WellFormed, StepWellFormed
  <2> HIDE DEF out
  <2>4. 1 \in DOMAIN out
    BY <2>2, <2>3
  <2> QED BY <1>2, <1>4, <2>4 DEF Node, out
<1> QED BY <1>3, <1>4

LEMMA PlaceOf ==
    ASSUME NEW d, NEW n \in 0..Len(d.steps), NEW i \in DOMAIN Node(d, n)
    PROVE  <<n, i>> \in Places(d) /\ <<n, i>>[1] = n
BY DEF Places

LEMMA PlaceParts ==
    ASSUME NEW d, NEW place \in Places(d)
    PROVE  /\ place = <<place[1], place[2]>>
           /\ place[1] \in 0..Len(d.steps) /\ place[2] \in DOMAIN Node(d, place[1])
BY DEF Places

\* Equal keys are related.
LEMMA SlotsApart ==
    ASSUME NamespacesSeparate(definition),
           NEW p \in Places(definition), NEW q \in Places(definition), p # q
    PROVE  StreamsOfSlot(SlotAt(definition, p))
               \cap StreamsOfSlot(SlotAt(definition, q)) = {}
<1>1. ~Overlap(SlotAt(definition, p), SlotAt(definition, q))
  BY DEF NamespacesSeparate
<1>2. SUFFICES ASSUME NEW x \in ItemKeys(SlotAt(definition, p)),
                      NEW y \in ItemKeys(SlotAt(definition, q)),
                      KeyFor(SlotAt(definition, p), x) = KeyFor(SlotAt(definition, q), y)
               PROVE  FALSE
  BY DEF StreamsOfSlot
<1>3. ~Related(KeyFor(SlotAt(definition, p), x), KeyFor(SlotAt(definition, q), y))
  BY <1>1, ApartMeansUnrelated
<1> QED BY <1>2, <1>3 DEF Related

\* An input names one slot: kinds are unique, and so are names at a node.
LEMMA BoundToOne ==
    ASSUME WellFormed(definition), DefinitionTypeOK, NEW input,
           NEW p \in BoundTo(input), NEW q \in BoundTo(input)
    PROVE  p = q
<1>1. p \in Places(definition) /\ q \in Places(definition)
  BY DEF BoundTo, Offered
<1>2. p[1] = q[1]
  <2>1. CASE input.source = External
    BY <2>1 DEF BoundTo, Offered
  <2>2. CASE input.source # External
    <3>1. /\ p[1] # 0 /\ definition.steps[p[1]].kind = input.source
          /\ q[1] # 0 /\ definition.steps[q[1]].kind = input.source
      BY <2>2 DEF BoundTo, Offered
    <3>2. p[1] \in DOMAIN definition.steps /\ q[1] \in DOMAIN definition.steps
      BY <1>1, <3>1, PlaceParts, NodesHaveSlots DEF DefinitionTypeOK
    <3> QED BY <3>1, <3>2 DEF WellFormed
  <2> QED BY <2>1, <2>2
<1> DEFINE n == p[1]
<1>3. NamesDiffer(Node(definition, n))
  <2>1. CASE n = 0
    BY <2>1 DEF Node, WellFormed
  <2>2. CASE n # 0
    <3>1. n \in DOMAIN definition.steps
      BY <1>1, <2>2, PlaceParts, NodesHaveSlots DEF DefinitionTypeOK
    <3> QED BY <2>2, <3>1 DEF Node, WellFormed, StepWellFormed
  <2> QED BY <2>1, <2>2
<1>4. SlotAt(definition, p).name = SlotAt(definition, q).name
  BY DEF BoundTo
<1>5. p[2] = q[2]
  BY <1>1, <1>2, <1>3, <1>4, PlaceParts DEF NamesDiffer, SlotAt
<1> QED BY <1>1, <1>2, <1>5, PlaceParts

\* What StepRun assumes of a definition holds of every one that is accepted
\* (contracts.py:133-165, 231-262): no stream belongs to two nodes, every node
\* has streams, and every input reads the streams of one slot of another node.
THEOREM AcceptedSuitsStepRuns == Spec => []StepRunsFit
<1>1. ASSUME Checked, OrderInv, CycleIsReal, phase = "accepted" PROVE StepRunsFit
  <2>1. WellFormed(definition) /\ NamespacesSeparate(definition) /\ BindingsHold(definition)
    BY <1>1 DEF Checked
  <2>2. DefinitionTypeOK /\ definition \in Definitions
    BY <1>1 DEF OrderInv, DefinitionTypeOK
  <2>3. ASSUME NEW m \in 0..Len(definition.steps), NEW n \in 0..Len(definition.steps), m # n
        PROVE  StreamsOfNode(m) \cap StreamsOfNode(n) = {}
    BY <2>1, <2>3, SlotsApart DEF StreamsOfNode
  <2>4. ASSUME NEW n \in 0..Len(definition.steps) PROVE StreamsOfNode(n) # {}
    <3> DEFINE place == <<n, 1>>
    <3>1. place \in Places(definition) /\ place[1] = n
      BY <2>1, <2>2, NodesHaveSlots, PlaceOf
    <3>2. PICK x : x \in ItemKeys(SlotAt(definition, place))
      BY SlotAssumption DEF ItemKeys
    <3>3. KeyFor(SlotAt(definition, place), x) \in StreamsOfNode(n)
      BY <3>1, <3>2 DEF StreamsOfNode, StreamsOfSlot
    <3> QED BY <3>3
  <2>5. ASSUME NEW n \in DOMAIN definition.steps,
               NEW i \in DOMAIN definition.steps[n].inputs
        PROVE  \E place \in Places(definition) :
                  /\ BoundTo(definition.steps[n].inputs[i]) = {place}
                  /\ place[1] # n
    <3> DEFINE input == definition.steps[n].inputs[i]
    <3>1. PICK place \in Offered(definition, input.source) :
              /\ SlotAt(definition, place).name = input.slot
              /\ SlotAt(definition, place).kind = input.kind
      BY <2>1 DEF BindingsHold
    <3>2. place \in BoundTo(input) /\ place \in Places(definition)
      BY <3>1 DEF BoundTo, Offered
    <3>3. BoundTo(input) = {place}
      BY <2>1, <2>2, <3>2, BoundToOne
    <3>4. place[1] # n
      <4> SUFFICES ASSUME place[1] = n PROVE FALSE
        OBVIOUS
      <4>1. n # 0
        BY <2>1, <2>2, NodesHaveSlots
      <4>2. input.source = definition.steps[n].kind
        BY <3>1, <4>1, ItemAssumption DEF Offered
      <4> DEFINE k == definition.steps[n].kind
      <4>3. k \in KindsOf(definition) /\ ReadsOutputOf(k, k)
        BY <4>2 DEF KindsOf, ReadsOutputOf
      <4>4. WaitInACircle({k})
        BY <4>3 DEF WaitInACircle
      <4> QED BY <1>1, <4>3, <4>4 DEF CycleIsReal
    <3> QED BY <3>2, <3>3, <3>4
  <2> QED BY <2>3, <2>4, <2>5 DEF StepRunsFit
<1>2. Checked /\ OrderInv /\ CycleIsReal => StepRunsFit
  BY <1>1 DEF StepRunsFit
<1> QED BY <1>2, CheckedHolds, OrderInvHolds, CyclesAreFound, PTL

-----------------------------------------------------------------------------
(* Refusals for namespaces are needless in one case only.                  *)

SlotTyped(slot) ==
    /\ slot.items \subseteq Names
    /\ \A i \in DOMAIN slot.template : slot.template[i] \in Segments \cup {Item}

\* The items a template would need to meet another one at its own item.
LEMMA ItemMeets ==
    ASSUME NEW left, NEW right, SlotTyped(left), SlotTyped(right),
           SlotWellFormed(left), Names # {},
           \A i \in DOMAIN left.template \cap DOMAIN right.template :
               /\ left.template[i] = Item => right.template[i] # Item
               /\ left.template[i] = Item /\ left.items # {} =>
                     right.template[i] \in left.items
    PROVE  \E x \in AssumedKeys(left) :
               /\ x \in ItemKeys(left) \/ SpelledOut(x, right)
               /\ \A i \in DOMAIN left.template \cap DOMAIN right.template :
                     left.template[i] = Item => right.template[i] = x
<1>1. CASE \E i \in DOMAIN left.template \cap DOMAIN right.template :
              left.template[i] = Item
  <2>1. PICK i \in DOMAIN left.template \cap DOMAIN right.template :
            left.template[i] = Item
    BY <1>1
  <2>2. right.template[i] \in AssumedKeys(left) /\ SpelledOut(right.template[i], right)
    BY <2>1 DEF AssumedKeys, SpelledOut, SlotTyped
  <2>3. \A j \in DOMAIN left.template : left.template[j] = Item => j = i
    BY <2>1 DEF SlotWellFormed, Dynamic
  <2> QED BY <2>2, <2>3
<1>2. CASE ~\E i \in DOMAIN left.template \cap DOMAIN right.template :
              left.template[i] = Item
  <2>1. PICK x : x \in ItemKeys(left)
    BY DEF ItemKeys
  <2>2. x \in AssumedKeys(left)
    BY <2>1, SlotAssumption DEF ItemKeys, AssumedKeys
  <2> QED BY <1>2, <2>1, <2>2
<1> QED BY <1>1, <1>2

LEMMA OverlapMeansRelated ==
    ASSUME NEW left, NEW right, SlotTyped(left), SlotTyped(right),
           SlotWellFormed(left), SlotWellFormed(right), Names # {},
           Overlap(left, right)
    PROVE  \E x \in AssumedKeys(left), y \in AssumedKeys(right) :
               /\ Related(KeyFor(left, x), KeyFor(right, y))
               /\ x \in ItemKeys(left) \/ SpelledOut(x, right)
               /\ y \in ItemKeys(right) \/ SpelledOut(y, left)
<1> DEFINE Both == DOMAIN left.template \cap DOMAIN right.template
<1>1. CASE \E i \in Both : left.template[i] = Item /\ right.template[i] = Item
  <2>1. PICK i \in Both : left.template[i] = Item /\ right.template[i] = Item
    BY <1>1
  <2>2. PartsMeet(left, right, i)
    BY <2>1 DEF Overlap
  <2>3. left.items # {} /\ right.items # {} => left.items \cap right.items # {}
    BY <2>1, <2>2 DEF PartsMeet
  <2>4. PICK z : z \in ItemKeys(left) /\ z \in ItemKeys(right)
    BY <2>3 DEF ItemKeys, SlotTyped
  <2>5. ASSUME NEW j \in Both PROVE KeyFor(left, z)[j] = KeyFor(right, z)[j]
    <3>1. CASE j = i
      BY <2>1, <3>1 DEF KeyFor
    <3>2. CASE j # i
      <4>1. left.template[j] # Item /\ right.template[j] # Item
        BY <2>1, <3>2 DEF SlotWellFormed, Dynamic
      <4>2. left.template[j] = right.template[j]
        BY <4>1 DEF Overlap, PartsMeet
      <4> QED BY <4>1, <4>2 DEF KeyFor
    <3> QED BY <3>1, <3>2
  <2>6. Related(KeyFor(left, z), KeyFor(right, z))
    BY <2>5 DEF Related, KeyFor
  <2>7. z \in AssumedKeys(left) /\ z \in AssumedKeys(right)
    BY <2>4, SlotAssumption DEF ItemKeys, AssumedKeys
  <2> QED BY <2>4, <2>6, <2>7
<1>2. CASE ~\E i \in Both : left.template[i] = Item /\ right.template[i] = Item
  <2>1. PICK x \in AssumedKeys(left) :
            /\ x \in ItemKeys(left) \/ SpelledOut(x, right)
            /\ \A i \in Both : left.template[i] = Item => right.template[i] = x
    BY <1>2, ItemMeets DEF Overlap, PartsMeet
  <2>2. PICK y \in AssumedKeys(right) :
            /\ y \in ItemKeys(right) \/ SpelledOut(y, left)
            /\ \A i \in Both : right.template[i] = Item => left.template[i] = y
    BY <1>2, ItemMeets DEF Overlap, PartsMeet
  <2>3. ASSUME NEW j \in Both PROVE KeyFor(left, x)[j] = KeyFor(right, y)[j]
    <3>1. left.template[j] # Item /\ right.template[j] # Item =>
              left.template[j] = right.template[j]
      BY DEF Overlap, PartsMeet
    <3> QED BY <1>2, <2>1, <2>2, <3>1 DEF KeyFor
  <2>4. Related(KeyFor(left, x), KeyFor(right, y))
    BY <2>3 DEF Related, KeyFor
  <2> QED BY <2>1, <2>2, <2>4
<1> QED BY <1>1, <1>2

RefusedForOverlap ==
    /\ definition \in Definitions
    /\ phase = "overlapping" => WellFormed(definition) /\ ~NamespacesSeparate(definition)

\* A definition is refused for its namespaces only when two of its slots can
\* produce equal keys, or one that is a prefix of the other, or could if a
\* segment that one spells out were an item key of the other: but for what
\* validate_name refuses, comparing segment by segment is exact
\* (contracts.py:264-285).
THEOREM RefusalIsNeeded == Spec => []OverlapIsReal
<1>1. Init => RefusedForOverlap
  BY DEF Init, RefusedForOverlap
<1>2. RefusedForOverlap /\ [Next]_vars => RefusedForOverlap'
  <2> SUFFICES ASSUME RefusedForOverlap, [Next]_vars PROVE RefusedForOverlap'
    OBVIOUS
  <2>1. definition' = definition
    BY DEF Next, vars, RejectMalformed, RejectOverlap, RejectBinding, RejectCycle,
         Accept, EndAs, StartSorting, Layer, AppendNext
  <2>2. phase' = "overlapping" =>
            WellFormed(definition) /\ ~NamespacesSeparate(definition)
    BY DEF RefusedForOverlap, Next, vars, RejectMalformed, RejectOverlap,
         RejectBinding, RejectCycle, Accept, EndAs, StartSorting, Layer, AppendNext
  <2> QED BY <2>1, <2>2 DEF RefusedForOverlap
<1>3. RefusedForOverlap => OverlapIsReal
  <2> SUFFICES ASSUME RefusedForOverlap, phase = "overlapping"
               PROVE  OverlapIsReal
    BY DEF OverlapIsReal
  <2>1. PICK p, q \in Places(definition) :
            p # q /\ Overlap(SlotAt(definition, p), SlotAt(definition, q))
    BY DEF RefusedForOverlap, NamespacesSeparate
  <2>2. SlotWellFormed(SlotAt(definition, p)) /\ SlotWellFormed(SlotAt(definition, q))
    BY <2>1 DEF RefusedForOverlap, WellFormed
  <2>3. SlotTyped(SlotAt(definition, p)) /\ SlotTyped(SlotAt(definition, q))
    BY <2>1, SlotAssumption DEF RefusedForOverlap, SlotTyped
  <2> DEFINE left == SlotAt(definition, p)
             right == SlotAt(definition, q)
  <2>4. \E x \in AssumedKeys(left), y \in AssumedKeys(right) :
            /\ Related(KeyFor(left, x), KeyFor(right, y))
            /\ x \in ItemKeys(left) \/ SpelledOut(x, right)
            /\ y \in ItemKeys(right) \/ SpelledOut(y, left)
    BY <2>1, <2>2, <2>3, SlotAssumption, OverlapMeansRelated
  <2> QED BY <2>1, <2>4 DEF OverlapIsReal
<1> QED BY <1>1, <1>2, <1>3, PTL DEF Spec

=============================================================================
