------------------------ MODULE MCPipelineDefinition ------------------------
(***************************************************************************)
(* Small definitions for TLC, and the one that is shipped.                 *)
(***************************************************************************)
EXTENDS ShortVideo, TLC

AllKinds == DOMAIN StepKinds

AllNames == {"a", "b", "c", "x", "fact_card", "asset", "channel", "package",
             "douyin", "wechat_channels"} \cup {StepKinds[k] : k \in AllKinds}

\* A segment that no item key can be.
AllSegments == AllNames \cup {"9x16"}

\* Slots whose keys are equal, prefixes of one another, restricted or free, and
\* two that are malformed.
Slots(name) ==
    {Single(name, "text", template) : template \in {<<"a">>, <<"a", "b">>, <<"a", "b", "c">>,
                                                  <<"a", "9x16">>}}
    \cup {Fanout(name, "text", <<"a", Item>>, items) : items \in {{}, {"b"}, {"c"}}}
    \cup {Fanout(name, "text", <<Item, "b">>, items) : items \in {{}, {"b", "c"}}}
    \cup {Fanout(name, "text", <<"a", Item, "b">>, {"b"}),
          Fanout(name, "text", <<"c", "c">>, {}),
          Single(name, "text", <<"b", Item>>)}

Step(kind, inputs, outputs) ==
    [kind |-> kind, inputs |-> inputs, outputs |-> outputs,
     trigger |-> "automatic", required |-> TRUE]

\* One external slot and a step with two outputs, two of which may share a name.
NamespaceDefinitions ==
    {[externals |-> <<x>>, steps |-> <<Step(1, <<>>, <<y, z>>)>>] :
        x \in Slots("x"), y \in Slots("y"), z \in Slots("z") \cup {Single("y", "text", <<"c">>)}}

\* The sources in a set of kinds, as inputs.
Inputs(kinds) ==
    LET Input(k) == [name |-> StepKinds[k], kind |-> "text", source |-> k, slot |-> "out"]
        Chosen(input) == input.source \in kinds
    IN  SelectSeq(<<Input(1), Input(2), Input(3)>>, Chosen)

\* Every graph of three steps.
GraphDefinitions ==
    {[externals |-> <<Single("x", "text", <<"x">>)>>,
      steps |-> [k \in 1..3 |->
          Step(k, Inputs(reads[k]), <<Single("out", "text", <<StepKinds[k]>>)>>)]] :
        reads \in [1..3 -> SUBSET (1..3)]}

\* Inputs that name a missing source, a missing slot or another kind, steps of
\* the same kind, and one that needs an approval.
BindingDefinitions ==
    {[externals |-> <<Single("x", "text", <<"x">>)>>,
      steps |-> <<Step(2, <<[name |-> "in", kind |-> kind, source |-> source,
                             slot |-> slot]>>,
                       <<Single("out", "text", <<"b">>)>>),
                  [Step(other, <<>>, <<Single("out", "text", <<"c">>)>>) EXCEPT
                      !.trigger = "approval", !.required = required]>>] :
        kind \in {"text", "media"}, source \in {External, 1, 3}, slot \in {"x", "out"},
        other \in {1, 2}, required \in BOOLEAN}

AllDefinitions ==
    NamespaceDefinitions \cup GraphDefinitions \cup BindingDefinitions
    \cup {ShortVideoDefinition}

=============================================================================
