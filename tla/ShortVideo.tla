----------------------------- MODULE ShortVideo -----------------------------
(***************************************************************************)
(* The one pipeline that is shipped: short_video_v1_definition.  A step,   *)
(* its artifact kind and, but for the items of fan-outs, its slot and its  *)
(* logical key have the same name.                                         *)
(***************************************************************************)
EXTENDS PipelineDefinitionProperties

\* The values of StepKind in their order, which decides within a layer.
StepKinds == <<"asset_manifest", "channel_package", "cover", "qc_report",
               "review_bundle", "script", "storyboard", "subtitles",
               "topic_brief", "video_master", "voiceover">>

Kind(name) == CHOOSE k \in DOMAIN StepKinds : StepKinds[k] = name

\* Inputs by name: fact_card is external, the others are outputs of a step.
Reads(names) ==
    [i \in DOMAIN names |->
        [name |-> names[i], kind |-> names[i], slot |-> names[i],
         source |-> IF names[i] = "fact_card" THEN External ELSE Kind(names[i])]]

Slot(name) == Single(name, name, <<name>>)

Makes(name, names) ==
    [kind |-> Kind(name), inputs |-> Reads(names), outputs |-> <<Slot(name)>>,
     trigger |-> "automatic", required |-> TRUE]

ShotAssets == Fanout("shot_asset", "media", <<"asset", Item>>, {})

Packages == Fanout("channel_package", "channel_package",
                   <<"channel", Item, "package">>, {"douyin", "wechat_channels"})

Steps == <<
    Makes("topic_brief", <<"fact_card">>),
    Makes("script", <<"topic_brief">>),
    Makes("storyboard", <<"script">>),
    [Makes("asset_manifest", <<"storyboard">>) EXCEPT
        !.outputs = <<Slot("asset_manifest"), ShotAssets>>],
    Makes("voiceover", <<"script">>),
    Makes("subtitles", <<"script", "voiceover">>),
    Makes("cover", <<"storyboard", "asset_manifest">>),
    Makes("video_master", <<"asset_manifest", "voiceover", "subtitles">>),
    Makes("qc_report", <<"fact_card", "asset_manifest", "subtitles", "cover",
                         "video_master">>),
    Makes("review_bundle", <<"fact_card", "cover", "video_master", "qc_report">>),
    [Makes("channel_package", <<"review_bundle">>) EXCEPT
        !.outputs = <<Packages>>, !.trigger = "approval", !.required = FALSE] >>

ShortVideoDefinition == [externals |-> <<Slot("fact_card")>>, steps |-> Steps]

StepOf(d, k) == CHOOSE n \in DOMAIN d.steps : d.steps[n].kind = k

\* Mutation: every step delays the run.
AllSteps(d, sorted) == sorted

\* run_completion_steps: what a run needs before its review is ready.
RunCompletionSteps(d, sorted) ==
    LET Required(k) == d.steps[StepOf(d, k)].required
    IN  SelectSeq(sorted, Required)

\* The shipped pipeline is accepted, its run is complete once its review bundle
\* is, and no step that a run must complete waits for an approval.
RunEndsInReview ==
    definition = ShortVideoDefinition =>
        /\ phase \notin Refused
        /\ phase = "accepted" =>
              LET needed == RunCompletionSteps(definition, order)
              IN  /\ needed[Len(needed)] = Kind("review_bundle")
                  /\ \A k, l \in DOMAIN StepKinds :
                        /\ ReadsOutputOf(k, l)
                        /\ k \in {needed[i] : i \in DOMAIN needed}
                        => l \in {needed[i] : i \in DOMAIN needed}

=============================================================================
