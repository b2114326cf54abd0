------------------------------ MODULE FzPipeline ------------------------------
(***************************************************************************)
(* One object of the FZGPUModules compressor: its configuration, and the   *)
(* library's pipeline it keeps from one call to the next.  A pipeline is   *)
(* rebuilt only when something it was built from may have changed; what    *)
(* compress knows of its stages are pointers into it.                      *)
(* A value of an option is its default or another; a pipeline has one      *)
(* stage, at s0.                                                           *)
(***************************************************************************)
EXTENDS Naturals, FzStages

CONSTANTS Tables,     \* from the name of a kind of stage to the stage
          Menus,      \* the sets of kinds one caller uses
          Sizes,      \* sizes of the data
          MaxCalls    \* calls of one object

Value == {"default", "other"}
Kind == DOMAIN Tables
NoStage == "none"

\* a stage notices the change of every parameter that it builds with
ASSUME NoticedAssumption == \A k \in Kind : Tables[k].used \subseteq Tables[k].compared
ASSUME KindAssumption == NoStage \notin Kind /\ {"archive", "file"} \cap Kind = {}
ASSUME MenuAssumption == Menus \subseteq SUBSET Kind
ASSUME SizeAssumption == Sizes \subseteq Nat \ {0} /\ MaxCalls \in Nat

VARIABLES menu, config,
          pipeline,         \* state_.ptr: its number, 0 for none, and what it was built from
          dirty, last_size,
          outlier_stages,   \* the number of the pipeline these point into, 0 when there are none
          terminal_outputs, \* the number of the pipeline whose ports these describe, 0 when there are none
          encoded,          \* what the last archive was encoded by, and what it should have been
          calls
vars == <<menu, config, pipeline, dirty, last_size, outlier_stages, terminal_outputs, encoded, calls>>

Default == [stage |-> NoStage, abs |-> "default", config_file |-> "default", expose |-> "default",
            params |-> [k \in Kind |-> {}]]

\* what a pipeline is built from: a file says all of it
Manual(c) == c.config_file = "default"
FromFile == [stage |-> "file", used |-> {}, abs |-> "default", expose |-> "default", size |-> 0]
Encoder(c, size) == IF Manual(c) THEN [stage |-> c.stage, used |-> c.params[c.stage] \cap Tables[c.stage].used,
                                       abs |-> c.abs, expose |-> c.expose, size |-> size]
                                 ELSE FromFile
\* fromHeader: the archive says all of it
FromArchive == [stage |-> "archive", used |-> {}, abs |-> "default", expose |-> "default", size |-> 0]
NoPipeline == [id |-> 0, as |-> FromArchive]
NoArchive == [by |-> FromFile, wanted |-> FromFile]

Init == /\ menu \in Menus
        /\ config = Default
        /\ pipeline = NoPipeline /\ dirty = TRUE /\ last_size = 0
        /\ outlier_stages = 0 /\ terminal_outputs = 0
        /\ encoded = NoArchive /\ calls = 0
Counted == calls < MaxCalls /\ calls' = calls + 1 /\ UNCHANGED menu

\* get_options: parameters are shown for the stage of the configuration alone, and not beside a file
Shown(c) == IF Manual(c) /\ c.stage # NoStage THEN Tables[c.stage].shown ELSE {}
Fields == {"stages", "abs", "config_file", "expose"}
\* a stage is given, and shows, every parameter that it builds with; its names are its own
ASSUME ShownAssumption == \A k \in Kind : /\ Tables[k].used \subseteq Tables[k].read \cap Tables[k].shown
                                         /\ Tables[k].used \cap Fields = {}
Options(c) == [o \in Fields \cup Shown(c) |->
                 CASE o = "stages" -> c.stage
                   [] o = "abs" -> c.abs
                   [] o = "config_file" -> c.config_file
                   [] o = "expose" -> c.expose
                   [] OTHER -> IF o \in c.params[c.stage] THEN "other" ELSE "default"]
With(options, o, v) == [x \in DOMAIN options \cup {o} |-> IF x = o THEN v ELSE options[x]]
Given(options, o, v) == IF o \in DOMAIN options THEN options[o] ELSE v

\* read_options on a copy of the configuration.  A parameter is known by its place and name: what the place's former
\* stage was given under that name is its new stage's too
ReadParams(set, names, options) == {p \in names : Given(options, p, IF p \in set THEN "other" ELSE "default") = "other"}
                                   \cup (set \ names)
\* a slip: the parameters are those of the place's former stage
ReadOptions_mut(c, options) ==
  [stage |-> Given(options, "stages", c.stage), abs |-> Given(options, "abs", c.abs),
   config_file |-> Given(options, "config_file", c.config_file), expose |-> Given(options, "expose", c.expose),
   params |-> [k \in Kind |-> IF k = c.stage THEN ReadParams(c.params[k], Tables[k].read, options) ELSE c.params[k]]]
ReadOptions(c, options) ==
  LET stage == Given(options, "stages", c.stage)
  IN [stage |-> stage, abs |-> Given(options, "abs", c.abs), config_file |-> Given(options, "config_file", c.config_file),
      expose |-> Given(options, "expose", c.expose),
      params |-> [k \in Kind |-> IF k = stage THEN ReadParams(c.params[k], Tables[k].read, options) ELSE c.params[k]]]
\* same_values, and what the stage itself compares
SameValues(c, d) == c.stage = d.stage /\ c.abs = d.abs /\ c.config_file = d.config_file /\ c.expose = d.expose
StageChanged(c, d) == /\ d.stage # NoStage
                      /\ c.params[d.stage] \cap Tables[d.stage].compared # d.params[d.stage] \cap Tables[d.stage].compared
\* a slip: the parameters of the stages are not looked at
Changed_mut(c, d) == ~SameValues(c, d)
Changed(c, d) == StageChanged(c, d) \/ ~SameValues(c, d)

\* an option that is not accepted leaves everything as it was
SetOptions(options) ==
  /\ Counted
  /\ \/ UNCHANGED <<config, dirty>>
     \/ /\ config' = ReadOptions(config, options)
        /\ dirty' = (dirty \/ Changed(config, config'))
  /\ UNCHANGED <<pipeline, last_size, outlier_stages, terminal_outputs, encoded>>
\* one option alone, or all that get_options shows with one of them changed
OptionNames(c) == Fields \cup (IF c.stage # NoStage THEN Tables[c.stage].read ELSE {})
ValuesOf(o) == IF o = "stages" THEN menu \cup {NoStage} ELSE Value
Nothing == [o \in {} |-> NoStage]
Caller == \E base \in {Nothing, Options(config)}, o \in OptionNames(config) : \E v \in ValuesOf(o) : SetOptions(With(base, o, v))

\* build_encoder
Buildable(c) == Manual(c) => Tables[c.stage].needs \subseteq c.params[c.stage]
HasOutliers(c) == Manual(c) /\ Tables[c.stage].outliers
HasTerminals(c) == Manual(c) /\ c.expose = "other"
NeedRebuild(size) == dirty \/ pipeline.id = 0 \/ (Manual(config) /\ size # last_size)
BuildEncoder(size) ==
  /\ Buildable(config)
  /\ pipeline' = [id |-> calls', as |-> Encoder(config, size)]
  /\ dirty' = FALSE /\ last_size' = size
  /\ outlier_stages' = IF HasOutliers(config) THEN calls' ELSE 0
  /\ terminal_outputs' = IF HasTerminals(config) THEN calls' ELSE 0
\* compress: refused, or the pipeline cannot be built, and the former one is kept; or it is there, and the execution, a copy
\* afterwards, or nothing fails
Explicit(c) == c.stage # NoStage \/ ~Manual(c)
Compress(size) ==
  /\ Counted
  /\ UNCHANGED config
  /\ \/ UNCHANGED <<pipeline, dirty, last_size, outlier_stages, terminal_outputs, encoded>>
     \/ /\ Explicit(config)
        /\ IF NeedRebuild(size) THEN BuildEncoder(size)
                                ELSE UNCHANGED <<pipeline, dirty, last_size, outlier_stages, terminal_outputs>>
        /\ \/ UNCHANGED encoded
           \/ encoded' = [by |-> pipeline'.as, wanted |-> Encoder(config, size)]

\* a slip: what compress knows of the stages is kept
Decompress_mut ==
  /\ Counted
  /\ UNCHANGED <<config, last_size, outlier_stages, terminal_outputs, encoded>>
  /\ \/ UNCHANGED <<pipeline, dirty>>
     \/ pipeline' = [id |-> calls', as |-> FromArchive] /\ dirty' = TRUE
\* decompress: only a decoder that has decoded takes the pipeline's place
Decompress ==
  /\ Counted
  /\ UNCHANGED <<config, last_size, encoded>>
  /\ \/ UNCHANGED <<pipeline, dirty, outlier_stages, terminal_outputs>>
     \/ /\ pipeline' = [id |-> calls', as |-> FromArchive]
        /\ dirty' = TRUE
        /\ outlier_stages' = 0 /\ terminal_outputs' = 0

\* clone: a new object given the options of this one; the caller goes on with it
Clone == /\ Counted
         /\ config' = ReadOptions(Default, Options(config))
         /\ pipeline' = NoPipeline /\ dirty' = TRUE /\ last_size' = 0
         /\ outlier_stages' = 0 /\ terminal_outputs' = 0
         /\ UNCHANGED encoded
Done == calls = MaxCalls /\ UNCHANGED vars

Next == Caller \/ (\E size \in Sizes : Compress(size)) \/ Decompress \/ Clone \/ Done
Spec == Init /\ [][Next]_vars

\* Whatever options were set, accepted or refused, whatever was decoded and whatever failed before it: an archive is encoded
\* by the pipeline of the object's present configuration and of the data's size.
Fresh == encoded.by = encoded.wanted

\* The stages whose outliers compress counts, and the ports whose contents it reports, are those of the pipeline it has, and
\* the pipeline is one that has them.
RefsLive == /\ outlier_stages # 0 => /\ outlier_stages = pipeline.id
                                     /\ pipeline.as.stage \in Kind /\ Tables[pipeline.as.stage].outliers
            /\ terminal_outputs # 0 => terminal_outputs = pipeline.id /\ pipeline.as.expose = "other"

\* A clone encodes as the object it was made from does, although it is given only what get_options shows.
EncodesAlike(c, d) == Explicit(c) = Explicit(d) /\ (Explicit(c) => \A size \in Sizes : Encoder(c, size) = Encoder(d, size))
CloneAlike == [][Clone => EncodesAlike(config, config')]_vars
=============================================================================
