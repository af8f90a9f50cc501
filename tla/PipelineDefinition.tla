------------------------- MODULE PipelineDefinition -------------------------
(***************************************************************************)
(* How a pipeline definition is checked and ordered                        *)
(* (packages/pipeline/contracts.py): the dataclasses reject what is        *)
(* malformed, the namespaces of any two slots must not overlap, every      *)
(* input must name an output of its kind, and the steps are sorted into    *)
(* layers until none is left or a cycle shows.  StepRun takes what is      *)
(* accepted here for granted: no two nodes write the same stream.          *)
(*                                                                         *)
(* A logical key is the sequence of its segments: validate_logical_key     *)
(* and validate_name admit no "/" and no brace inside one.                 *)
(***************************************************************************)
EXTENDS Naturals, Sequences

CONSTANTS
    Kinds,       \* step kinds, numbered in the order of their values
    Segments,    \* segments of logical keys
    Names,       \* the segments that may be an item key
    Item,        \* the segment {item_key} of a template
    External,    \* the source of an input that no step produces
    Definitions  \* what a caller constructs or loads from a manifest

ASSUME KindAssumption == Kinds \subseteq Nat
ASSUME ItemAssumption == Item \notin Segments /\ External \notin Kinds
\* Slots and steps are tuples; the kind of a step is a member of StepKind.
ASSUME DefinitionAssumption ==
    LET IsTuple(s) == s \in Seq({s[i] : i \in DOMAIN s}) IN
    \A d \in Definitions :
        /\ IsTuple(d.externals) /\ IsTuple(d.steps)
        /\ \A n \in DOMAIN d.steps :
              d.steps[n].kind \in Kinds /\ IsTuple(d.steps[n].outputs)

VARIABLES
    definition, \* the definition that is constructed
    phase,      \* where the constructor is, or how it ended
    remaining,  \* kinds that are not yet in the result
    ready,      \* the layer that is being appended to the result
    order       \* the result of topological_steps, as kinds

vars == <<definition, phase, remaining, ready, order>>

Init ==
    /\ definition \in Definitions
    /\ phase = "new"
    /\ remaining = {} /\ ready = {} /\ order = <<>>

-----------------------------------------------------------------------------
(* Slots and the keys they stand for                                       *)

Single(name, kind, template) ==
    [name |-> name, kind |-> kind, template |-> template, fanout |-> FALSE,
     items |-> {}]

\* An empty set of item keys allows every name.
Fanout(name, kind, template, items) ==
    [name |-> name, kind |-> kind, template |-> template, fanout |-> TRUE,
     items |-> items]

Dynamic(slot) == {i \in DOMAIN slot.template : slot.template[i] = Item}

SlotWellFormed(slot) ==
    IF slot.fanout
    THEN /\ Dynamic(slot) # {}
         /\ \A i, j \in Dynamic(slot) : i = j
    ELSE Dynamic(slot) = {} /\ slot.items = {}

ItemKeys(slot) == IF slot.items = {} THEN Names ELSE slot.items

\* logical_key_for; a single slot ignores the item.
KeyFor(slot, item) ==
    [i \in DOMAIN slot.template |->
        IF slot.template[i] = Item THEN item ELSE slot.template[i]]

\* item_key_from: the items under which a key belongs to the slot.
ItemKeyFrom(slot, key) ==
    {item \in ItemKeys(slot) : KeyFor(slot, item) = key}

\* Mutation: an unrestricted item key does not meet a fixed segment.
PartsMeetIfEqual(l, r, i) == l.template[i] = r.template[i]

\* One turn of the loop of _logical_namespaces_overlap.
PartsMeet(l, r, i) ==
    LET a == l.template[i]
        b == r.template[i]
    IN  /\ a # Item /\ b # Item => a = b
        /\ a = Item /\ l.items # {} /\ b # Item => b \in l.items
        /\ b = Item /\ r.items # {} /\ a # Item => a \in r.items
        /\ a = Item /\ b = Item /\ l.items # {} /\ r.items # {} =>
              l.items \cap r.items # {}

\* Mutation: templates of different lengths never overlap.
OverlapSameLength(l, r) ==
    /\ Len(l.template) = Len(r.template)
    /\ \A i \in DOMAIN l.template : PartsMeet(l, r, i)

\* The segments that both templates have are compared.
Overlap(l, r) ==
    \A i \in DOMAIN l.template \cap DOMAIN r.template : PartsMeet(l, r, i)

-----------------------------------------------------------------------------
(* The parts of a definition                                               *)

\* The external inputs are slots of node 0, the outputs of the n-th step are
\* slots of node n.
Node(d, n) == IF n = 0 THEN d.externals ELSE d.steps[n].outputs

Places(d) == UNION {{<<n, i>> : i \in DOMAIN Node(d, n)} : n \in 0..Len(d.steps)}

SlotAt(d, place) == Node(d, place[1])[place[2]]

NamesDiffer(parts) ==
    \A i, j \in DOMAIN parts : parts[i].name = parts[j].name => i = j

StepWellFormed(step) ==
    /\ NamesDiffer(step.inputs)
    /\ step.outputs # <<>>
    /\ NamesDiffer(step.outputs)
    /\ step.trigger = "approval" => ~step.required

WellFormed(d) ==
    /\ \A place \in Places(d) : SlotWellFormed(SlotAt(d, place))
    /\ \A n \in DOMAIN d.steps : StepWellFormed(d.steps[n])
    /\ d.externals # <<>> /\ d.steps # <<>>
    /\ NamesDiffer(d.externals)
    /\ \A m, n \in DOMAIN d.steps : d.steps[m].kind = d.steps[n].kind => m = n

NamespacesSeparate(d) ==
    \A p, q \in Places(d) : p # q => ~Overlap(SlotAt(d, p), SlotAt(d, q))

KindsOf(d) == {d.steps[n].kind : n \in DOMAIN d.steps}

\* The slots of the node an input names as its source.
Offered(d, source) ==
    {place \in Places(d) : IF source = External THEN place[1] = 0
                           ELSE place[1] # 0 /\ d.steps[place[1]].kind = source}

BindingsHold(d) ==
    \A n \in DOMAIN d.steps : \A i \in DOMAIN d.steps[n].inputs :
        LET input == d.steps[n].inputs[i] IN
        \E place \in Offered(d, input.source) :
            /\ SlotAt(d, place).name = input.slot
            /\ SlotAt(d, place).kind = input.kind

\* Mutation: a step may read its own output.
DependenciesOnOthers(d, k) ==
    (UNION {{d.steps[n].inputs[i].source : i \in DOMAIN d.steps[n].inputs} :
               n \in {m \in DOMAIN d.steps : d.steps[m].kind = k}}) \ {External, k}

Dependencies(d, k) ==
    (UNION {{d.steps[n].inputs[i].source : i \in DOMAIN d.steps[n].inputs} :
               n \in {m \in DOMAIN d.steps : d.steps[m].kind = k}}) \ {External}

\* validate_name and validate_logical_key: an item key is a name; a segment of a
\* template may also begin with a digit or hold a hyphen.
ASSUME SlotAssumption ==
    /\ Names # {} /\ Names \subseteq Segments
    /\ \A d \in Definitions : \A place \in Places(d) :
          /\ SlotAt(d, place).items \subseteq Names
          /\ \A i \in DOMAIN SlotAt(d, place).template :
                SlotAt(d, place).template[i] \in Segments \cup {Item}

-----------------------------------------------------------------------------
(* PipelineDefinition.__post_init__                                        *)

EndAs(outcome) ==
    /\ phase' = outcome
    /\ UNCHANGED <<definition, remaining, ready, order>>

RejectMalformed ==
    /\ phase = "new"
    /\ ~WellFormed(definition)
    /\ EndAs("malformed")

RejectOverlap ==
    /\ phase = "new"
    /\ WellFormed(definition)
    /\ ~NamespacesSeparate(definition)
    /\ EndAs("overlapping")

RejectBinding ==
    /\ phase = "new"
    /\ WellFormed(definition)
    /\ NamespacesSeparate(definition)
    /\ ~BindingsHold(definition)
    /\ EndAs("unbound")

StartSorting ==
    /\ phase = "new"
    /\ WellFormed(definition)
    /\ NamespacesSeparate(definition)
    /\ BindingsHold(definition)
    /\ phase' = "sorting"
    /\ remaining' = KindsOf(definition)
    /\ UNCHANGED <<definition, ready, order>>

\* Mutation: one finished dependency is enough.
IndependentOfOne(k) ==
    \/ Dependencies(definition, k) = {}
    \/ \E l \in Dependencies(definition, k) : l \notin remaining

Independent(k) == Dependencies(definition, k) \cap remaining = {}

\* Mutation: an empty layer goes unnoticed.
NeverStuck == FALSE

Stuck == \A k \in remaining : ~Independent(k)

\* A turn of the loop of topological_steps starts: the next layer is taken.
Layer ==
    /\ phase = "sorting"
    /\ ready = {} /\ remaining # {}
    /\ ~Stuck
    /\ ready' = {k \in remaining : Independent(k)}
    /\ UNCHANGED <<definition, phase, remaining, order>>

\* A kind of the layer, by its value, is appended.  Its layer is fixed, so
\* that remaining may lose the kinds one by one.
AppendNext ==
    /\ phase = "sorting"
    /\ \E k \in ready :
          /\ \A l \in ready : k =< l
          /\ order' = Append(order, k)
          /\ ready' = ready \ {k}
          /\ remaining' = remaining \ {k}
    /\ UNCHANGED <<definition, phase>>

RejectCycle ==
    /\ phase = "sorting"
    /\ ready = {} /\ remaining # {}
    /\ Stuck
    /\ EndAs("cyclic")

Accept ==
    /\ phase = "sorting"
    /\ remaining = {}
    /\ EndAs("accepted")

Next ==
    \/ RejectMalformed \/ RejectOverlap \/ RejectBinding \/ StartSorting
    \/ Layer \/ AppendNext \/ RejectCycle \/ Accept

Spec == Init /\ [][Next]_vars

\* The constructor runs in one thread, without waiting for anything.
FairSpec == Spec /\ WF_vars(Next)

=============================================================================
