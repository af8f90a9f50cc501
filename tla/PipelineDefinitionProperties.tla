-------------------- MODULE PipelineDefinitionProperties --------------------
(***************************************************************************)
(* What a definition that was accepted guarantees, and that none is        *)
(* refused without a reason.  The references below look at the keys and at *)
(* the inputs themselves, not at templates, layers or remaining kinds.     *)
(***************************************************************************)
EXTENDS PipelineDefinition

Refused == {"malformed", "overlapping", "unbound", "cyclic"}

\* Every variable holds a value of its type; a layer is taken from what
\* remains, and what remains and what is ordered are kinds of the definition.
DefinitionTypeOK ==
    /\ definition \in Definitions
    /\ phase \in {"new", "sorting", "accepted"} \cup Refused
    /\ remaining \subseteq KindsOf(definition)
    /\ ready \subseteq remaining
    /\ order \in Seq(KindsOf(definition))

\* Two keys that are equal, or of which one is a directory of the other.
Related(key, other) ==
    \A i \in DOMAIN key \cap DOMAIN other : key[i] = other[i]

\* In an accepted definition no key of a slot is equal to, or a prefix of, a
\* key of another slot, whatever the items: streams are never shared, and no
\* file is in the way of a directory.
KeysSeparate ==
    phase = "accepted" =>
        \A p, q \in Places(definition) :
            LET left == SlotAt(definition, p)
                right == SlotAt(definition, q)
            IN  p # q =>
                    \A x \in ItemKeys(left), y \in ItemKeys(right) :
                        ~Related(KeyFor(left, x), KeyFor(right, y))

\* Items of a fan-out slot never share a key, so that item_key_from gives back
\* the item a key was made from.
KeyIdentifiesItem ==
    phase = "accepted" =>
        \A p \in Places(definition) :
            LET slot == SlotAt(definition, p)
            IN  slot.fanout => \A x \in ItemKeys(slot) :
                                   ItemKeyFrom(slot, KeyFor(slot, x)) = {x}

\* What _logical_namespaces_overlap takes for the items of a slot: an
\* unrestricted one might have any segment for its item.
AssumedKeys(slot) == IF slot.items = {} THEN Segments ELSE slot.items

SpelledOut(segment, slot) == \E i \in DOMAIN slot.template : slot.template[i] = segment

\* A definition is refused for its namespaces only when two slots can produce
\* related keys, or could if validate_name let a segment that one of them
\* spells out be an item of the other: that is the one case in which a sound
\* definition is refused.
OverlapIsReal ==
    phase = "overlapping" =>
        \E p, q \in Places(definition) :
            LET left == SlotAt(definition, p)
                right == SlotAt(definition, q)
            IN  /\ p # q
                /\ \E x \in AssumedKeys(left), y \in AssumedKeys(right) :
                      /\ Related(KeyFor(left, x), KeyFor(right, y))
                      /\ x \in ItemKeys(left) \/ SpelledOut(x, right)
                      /\ y \in ItemKeys(right) \/ SpelledOut(y, left)

\* Step k of the definition reads an output of step l.
ReadsOutputOf(k, l) ==
    \E n \in DOMAIN definition.steps :
        /\ definition.steps[n].kind = k
        /\ \E i \in DOMAIN definition.steps[n].inputs :
              definition.steps[n].inputs[i].source = l

\* Every step comes after the steps whose outputs it reads, no step comes
\* twice, and in an accepted definition none is missing.
OrderRespectsInputs ==
    /\ \A i \in DOMAIN order, l \in KindsOf(definition) :
          ReadsOutputOf(order[i], l) => \E j \in 1..(i - 1) : order[j] = l
    /\ \A i, j \in DOMAIN order : order[i] = order[j] => i = j
    /\ phase = "accepted" =>
          \A k \in KindsOf(definition) : \E i \in DOMAIN order : order[i] = k

\* Kinds that wait for one another, so that none can be first.
WaitInACircle(kinds) ==
    /\ kinds # {}
    /\ \A k \in kinds : \E l \in kinds : ReadsOutputOf(k, l)

\* A definition is refused for a cycle exactly when it has one.
CycleIsReal ==
    /\ phase = "cyclic" =>
          \E kinds \in SUBSET KindsOf(definition) : WaitInACircle(kinds)
    /\ phase = "accepted" =>
          \A kinds \in SUBSET KindsOf(definition) : ~WaitInACircle(kinds)

\* The streams of a slot, of the externals (node 0) or of the step at a node,
\* and the slots an input is bound to.
StreamsOfSlot(slot) == {KeyFor(slot, x) : x \in ItemKeys(slot)}

StreamsOfNode(n) ==
    UNION {StreamsOfSlot(SlotAt(definition, place)) :
              place \in {p \in Places(definition) : p[1] = n}}

BoundTo(input) ==
    {place \in Offered(definition, input.source) :
        /\ SlotAt(definition, place).name = input.slot
        /\ SlotAt(definition, place).kind = input.kind}

\* An accepted definition is what StepRun assumes of one: no stream belongs to
\* two nodes, every node has streams, and every input reads those of one slot,
\* which is not of the step itself.
StepRunsFit ==
    phase = "accepted" =>
        /\ \A m, n \in 0..Len(definition.steps) :
              m # n => StreamsOfNode(m) \cap StreamsOfNode(n) = {}
        /\ \A n \in 0..Len(definition.steps) : StreamsOfNode(n) # {}
        /\ \A n \in DOMAIN definition.steps : \A i \in DOMAIN definition.steps[n].inputs :
              \E place \in Places(definition) :
                  /\ BoundTo(definition.steps[n].inputs[i]) = {place}
                  /\ place[1] # n

\* The loop of topological_steps ends: every definition is accepted or refused.
EveryDefinitionIsDecided == <>(phase \in Refused \cup {"accepted"})

=============================================================================
