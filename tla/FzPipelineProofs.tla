--------------------------- MODULE FzPipelineProofs ---------------------------
(***************************************************************************)
(* For every set of stages that notice what they build with: an archive is *)
(* encoded by the pipeline of the present configuration, and what compress *)
(* knows of the stages points into the pipeline it has.                    *)
(***************************************************************************)
EXTENDS FzPipeline, TLAPS

\* the inductive invariant: a pipeline that is not to be rebuilt is the one the configuration asks for
Named == config.stage \in Kind \cup {NoStage}
Live == ~dirty => /\ pipeline.id # 0 /\ Explicit(config)
                  /\ pipeline.as = Encoder(config, last_size)
IInv == /\ calls \in Nat /\ menu \in Menus
        /\ Named /\ Live /\ Fresh /\ RefsLive

\* A configuration that differs from another in nothing that is noticed is encoded by the same pipeline: what the test in
\* set_options_impl must guarantee.
LEMMA UnchangedSame ==
  ASSUME NEW c, NEW d, NEW size, Explicit(c), ~Changed(c, d), c.stage \in Kind \cup {NoStage}
  PROVE Explicit(d) /\ Encoder(d, size) = Encoder(c, size)
<1>1. c.stage = d.stage /\ c.abs = d.abs /\ c.config_file = d.config_file /\ c.expose = d.expose
  BY DEF Changed, SameValues
<1>2. Explicit(d)
  BY <1>1 DEF Explicit, Manual
<1>3. CASE ~Manual(c)
  BY <1>1, <1>2, <1>3 DEF Encoder, Manual
<1>4. CASE Manual(c)
  <2>1. c.stage \in Kind /\ d.stage # NoStage
    BY <1>1, <1>4 DEF Explicit
  <2>2. c.params[c.stage] \cap Tables[c.stage].compared = d.params[d.stage] \cap Tables[d.stage].compared
    BY <2>1, <1>1 DEF Changed, StageChanged
  <2>3. Tables[c.stage].used \subseteq Tables[c.stage].compared
    BY <2>1, NoticedAssumption
  <2>4. c.params[c.stage] \cap Tables[c.stage].used = d.params[d.stage] \cap Tables[d.stage].used
    BY <2>2, <2>3, <1>1
  <2>5. Manual(d)
    BY <1>1, <1>4 DEF Manual
  <2>. QED
    BY <1>1, <1>2, <1>4, <2>4, <2>5 DEF Encoder
<1>. QED
  BY <1>3, <1>4

\* The first state of an object.
LEMMA InitInv == Init => IInv
<1>. SUFFICES ASSUME Init PROVE IInv
  OBVIOUS
<1>1. Named
  BY DEF Init, Default, Named
<1>2. Live /\ Fresh /\ RefsLive
  BY DEF Init, NoPipeline, NoArchive, Live, Fresh, RefsLive
<1>. QED
  BY <1>1, <1>2 DEF Init, IInv

\* Options that name a stage the caller may use.
Names(options) == Given(options, "stages", config.stage) \in Kind \cup {NoStage}
\* What a caller gives: some options, and another value of one of them.
LEMMA GivenWith ==
  ASSUME NEW base, NEW o, NEW v, Given(base, "stages", config.stage) = config.stage
  PROVE Given(With(base, o, v), "stages", config.stage) = IF o = "stages" THEN v ELSE config.stage
BY DEF Given, With
\* get_options shows the stages as they are.
LEMMA OptionsStage == Given(Options(config), "stages", config.stage) = config.stage
BY DEF Given, Options, Fields
LEMMA NothingStage == Given(Nothing, "stages", config.stage) = config.stage
BY DEF Given, Nothing
\* Every call of set_options is given options that name a stage of the caller's, or none.
LEMMA CallerNames == ASSUME IInv, Caller PROVE \E options : SetOptions(options) /\ Names(options)
<1>1. menu \subseteq Kind
  BY MenuAssumption DEF IInv
<1>2. PICK base \in {Nothing, Options(config)}, o \in OptionNames(config) : \E v \in ValuesOf(o) : SetOptions(With(base, o, v))
  BY DEF Caller
<1>3. PICK v \in ValuesOf(o) : SetOptions(With(base, o, v))
  BY <1>2
<1>4. Given(With(base, o, v), "stages", config.stage) = IF o = "stages" THEN v ELSE config.stage
  <2>1. Given(base, "stages", config.stage) = config.stage
    BY <1>2, OptionsStage, NothingStage
  <2>. QED
    BY <2>1, GivenWith
<1>5. Names(With(base, o, v))
  BY <1>1, <1>4 DEF Names, ValuesOf, IInv, Named
<1>. QED
  BY <1>3, <1>5

\* set_options: what is noticed makes the pipeline one to be rebuilt.
LEMMA SetOptionsInv == ASSUME IInv, NEW options, SetOptions(options), Names(options) PROVE IInv'
<1>1. calls' \in Nat /\ menu' \in Menus
  BY DEF SetOptions, Counted, IInv
<1>2. Fresh' /\ RefsLive'
  BY DEF SetOptions, IInv, Fresh, RefsLive
<1>3. CASE UNCHANGED <<config, dirty>>
  BY <1>1, <1>2, <1>3 DEF SetOptions, IInv, Named, Live
<1>4. CASE config' = ReadOptions(config, options) /\ dirty' = (dirty \/ Changed(config, config'))
  <2>1. Named'
    BY <1>4 DEF Named, Names, ReadOptions
  <2>2. Live'
    <3>1. SUFFICES ASSUME ~dirty'
                   PROVE pipeline'.id # 0 /\ Explicit(config') /\ pipeline'.as = Encoder(config', last_size')
      BY DEF Live
    <3>2. ~dirty /\ ~Changed(config, config')
      BY <1>4, <3>1
    <3>3. pipeline.id # 0 /\ Explicit(config) /\ pipeline.as = Encoder(config, last_size)
      BY <3>2 DEF IInv, Live
    <3>4. Explicit(config') /\ Encoder(config', last_size) = Encoder(config, last_size)
      BY <3>2, <3>3, UnchangedSame DEF IInv, Named
    <3>. QED
      BY <3>3, <3>4 DEF SetOptions
  <2>. QED
    BY <1>1, <1>2, <2>1, <2>2 DEF IInv
<1>. QED
  BY <1>3, <1>4 DEF SetOptions

\* build_encoder: a pipeline and what is known of it are made together.
LEMMA BuildEncoderInv ==
  ASSUME IInv, NEW size, BuildEncoder(size), Explicit(config), Counted, UNCHANGED config
  PROVE Live' /\ RefsLive' /\ pipeline'.as = Encoder(config, size)
<1>1. calls' \in Nat /\ calls' # 0
  BY DEF Counted, IInv
<1>2. Live' /\ pipeline'.as = Encoder(config, size)
  BY <1>1 DEF BuildEncoder, Live
<1>3. outlier_stages' # 0 => outlier_stages' = pipeline'.id /\ pipeline'.as.stage \in Kind /\ Tables[pipeline'.as.stage].outliers
  <2>1. SUFFICES ASSUME outlier_stages' # 0
                 PROVE outlier_stages' = pipeline'.id /\ pipeline'.as.stage \in Kind /\ Tables[pipeline'.as.stage].outliers
    OBVIOUS
  <2>2. HasOutliers(config) /\ outlier_stages' = pipeline'.id
    BY <2>1 DEF BuildEncoder
  <2>3. Manual(config) /\ config.stage \in Kind
    BY <2>2 DEF HasOutliers, Explicit, IInv, Named
  <2>4. pipeline'.as.stage = config.stage
    BY <1>2, <2>3 DEF Encoder
  <2>. QED
    BY <2>2, <2>3, <2>4 DEF HasOutliers
<1>4. terminal_outputs' # 0 => terminal_outputs' = pipeline'.id /\ pipeline'.as.expose = "other"
  BY <1>2 DEF BuildEncoder, HasTerminals, Encoder
<1>. QED
  BY <1>2, <1>3, <1>4 DEF RefsLive

\* compress: a pipeline that is kept is the one the data of this size would be given.
LEMMA CompressInv == ASSUME IInv, NEW size, Compress(size) PROVE IInv'
<1>1. calls' \in Nat /\ menu' \in Menus /\ Named'
  BY DEF Compress, Counted, IInv, Named
<1>2. CASE UNCHANGED <<pipeline, dirty, last_size, outlier_stages, terminal_outputs, encoded>>
  BY <1>1, <1>2 DEF Compress, IInv, Live, Fresh, RefsLive
<1>3. CASE /\ Explicit(config)
           /\ IF NeedRebuild(size) THEN BuildEncoder(size)
                                   ELSE UNCHANGED <<pipeline, dirty, last_size, outlier_stages, terminal_outputs>>
           /\ UNCHANGED encoded \/ encoded' = [by |-> pipeline'.as, wanted |-> Encoder(config, size)]
  <2>1. Live' /\ RefsLive' /\ pipeline'.as = Encoder(config, size)
    <3>1. CASE NeedRebuild(size)
      BY <1>3, <3>1, BuildEncoderInv DEF Compress
    <3>2. CASE ~NeedRebuild(size)
      <4>1. UNCHANGED <<config, pipeline, dirty, last_size, outlier_stages, terminal_outputs>>
        BY <1>3, <3>2 DEF Compress
      <4>2. pipeline.as = Encoder(config, last_size) /\ (Manual(config) => size = last_size)
        BY <3>2 DEF NeedRebuild, IInv, Live
      <4>3. pipeline.as = Encoder(config, size)
        BY <4>2 DEF Encoder
      <4>. QED
        BY <4>1, <4>3 DEF IInv, Live, RefsLive
    <3>. QED
      BY <3>1, <3>2
  <2>2. Fresh'
    BY <1>3, <2>1 DEF Fresh, IInv
  <2>. QED
    BY <1>1, <2>1, <2>2 DEF IInv
<1>. QED
  BY <1>2, <1>3 DEF Compress

\* decompress: the decoder that takes the pipeline's place is to be rebuilt, and nothing points into what it replaces.
LEMMA DecompressInv == ASSUME IInv, Decompress PROVE IInv'
<1>1. calls' \in Nat /\ menu' \in Menus /\ Named' /\ Fresh'
  BY DEF Decompress, Counted, IInv, Named, Fresh
<1>2. Live' /\ RefsLive'
  BY DEF Decompress, IInv, Live, RefsLive
<1>. QED
  BY <1>1, <1>2 DEF IInv

\* clone: a new object has no pipeline.
LEMMA CloneInv == ASSUME IInv, Clone PROVE IInv'
<1>1. calls' \in Nat /\ menu' \in Menus /\ Fresh' /\ Live' /\ RefsLive'
  BY DEF Clone, Counted, IInv, Fresh, Live, RefsLive
<1>2. config'.stage = config.stage
  BY DEF Clone, ReadOptions, Given, Options, Fields
<1>. QED
  BY <1>1, <1>2 DEF IInv, Named

\* What a new object reads of the options of this one: all of the configuration, and of the parameters those that the
\* present stage builds with.
LEMMA ReadBack ==
  ASSUME Named
  PROVE LET d == ReadOptions(Default, Options(config))
        IN /\ d.stage = config.stage /\ d.abs = config.abs
           /\ d.config_file = config.config_file /\ d.expose = config.expose
           /\ Manual(config) /\ config.stage # NoStage =>
                d.params[d.stage] \cap Tables[d.stage].used = config.params[config.stage] \cap Tables[config.stage].used
<1> DEFINE d == ReadOptions(Default, Options(config))
           used == Tables[config.stage].used
           read == Tables[config.stage].read
<1>1. d.stage = config.stage /\ d.abs = config.abs /\ d.config_file = config.config_file /\ d.expose = config.expose
  BY DEF ReadOptions, Given, Options, Fields
<1>2. ASSUME Manual(config), config.stage # NoStage
      PROVE d.params[config.stage] \cap used = config.params[config.stage] \cap used
  <2>1. config.stage \in Kind /\ used \subseteq read \cap Tables[config.stage].shown /\ used \cap Fields = {}
    BY <1>2, ShownAssumption DEF Named
  <2>2. d.params[config.stage] = ReadParams({}, read, Options(config))
    BY <1>1, <2>1 DEF ReadOptions, Default
  <2>3. ASSUME NEW p \in used
        PROVE Given(Options(config), p, "default") = IF p \in config.params[config.stage] THEN "other" ELSE "default"
    <3>1. p \in Fields \cup Shown(config) /\ p \notin Fields
      BY <1>2, <2>1 DEF Shown
    <3>2. Options(config)[p] = IF p \in config.params[config.stage] THEN "other" ELSE "default"
      BY <3>1 DEF Options, Fields
    <3>. QED
      BY <3>1, <3>2 DEF Given, Options
  <2>4. \A p \in used : p \in ReadParams({}, read, Options(config)) <=> p \in config.params[config.stage]
    BY <2>1, <2>3 DEF ReadParams
  <2>. QED
    BY <2>2, <2>4
<1>. QED
  BY <1>1, <1>2

\* Every call, and the end of the calls, keeps the invariant.
LEMMA StepInv == IInv /\ [Next]_vars => IInv'
<1>. SUFFICES ASSUME IInv, [Next]_vars PROVE IInv'
  OBVIOUS
<1>1. CASE Caller
  BY <1>1, CallerNames, SetOptionsInv
<1>2. CASE \E size \in Sizes : Compress(size)
  BY <1>2, CompressInv
<1>3. CASE Decompress
  BY <1>3, DecompressInv
<1>4. CASE Clone
  BY <1>4, CloneInv
<1>5. CASE UNCHANGED vars
  BY <1>5 DEF vars, IInv, Named, Live, Fresh, RefsLive
<1>. QED
  BY <1>1, <1>2, <1>3, <1>4, <1>5 DEF Next, Done

\* The inductive invariant holds in every reachable state.
LEMMA Inductive == Spec => []IInv
BY InitInv, StepInv, PTL DEF Spec

\* An archive is encoded by the pipeline of the object's present configuration and of the data's size, whatever calls were
\* made before: the test of need_rebuild in compress_device misses nothing.
THEOREM AlwaysFresh == Spec => []Fresh
<1>1. IInv => Fresh
  BY DEF IInv
<1>. QED
  BY <1>1, Inductive, PTL

\* The stages compress counts the outliers of, and the ports it reports, are those of the pipeline it has: no pointer to a
\* stage outlives its pipeline.
THEOREM NoDanglingStage == Spec => []RefsLive
<1>1. IInv => RefsLive
  BY DEF IInv
<1>. QED
  BY <1>1, Inductive, PTL

\* A clone encodes as the object it was made from, although clone gives it only what get_options shows, which leaves out
\* the parameters of the stages the object had before, and those of any stage beside a file.
THEOREM ClonesAlike == Spec => CloneAlike
<1>1. ASSUME Named, Clone PROVE EncodesAlike(config, config')
  <2>1. /\ config'.stage = config.stage /\ config'.abs = config.abs
        /\ config'.config_file = config.config_file /\ config'.expose = config.expose
        /\ Manual(config) /\ config.stage # NoStage =>
             config'.params[config'.stage] \cap Tables[config'.stage].used
               = config.params[config.stage] \cap Tables[config.stage].used
    BY <1>1, ReadBack DEF Clone
  <2>2. Explicit(config') = Explicit(config) /\ Manual(config') = Manual(config)
    BY <2>1 DEF Explicit, Manual
  <2>3. ASSUME Explicit(config), NEW size \in Sizes PROVE Encoder(config, size) = Encoder(config', size)
    BY <2>1, <2>2, <2>3 DEF Encoder, Explicit
  <2>. QED
    BY <2>2, <2>3 DEF EncodesAlike
<1>2. IInv /\ [Next]_vars => [Clone => EncodesAlike(config, config')]_vars
  BY <1>1 DEF IInv
<1>. QED
  BY <1>2, Inductive, PTL DEF Spec, CloneAlike
=============================================================================
