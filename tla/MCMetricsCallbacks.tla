-------------------------- MODULE MCMetricsCallbacks --------------------------
(***************************************************************************)
(* The metrics plugins, each alone and some within others, and what each   *)
(* is known to do other than the properties ask.                           *)
(***************************************************************************)
EXTENDS MetricsCallbacks

AllMetrics == [
  Autocorr |-> Autocorr_metrics, DiffPdf |-> DiffPdf_metrics, KlDivergence |-> KlDivergence_metrics,
  MaxError |-> MaxError_metrics, Pearsons |-> Pearsons_metrics, SpatialError |-> SpatialError_metrics,
  KsTest |-> KsTest_metrics, KthError |-> KthError_metrics, RegionOfInterest |-> RegionOfInterest_metrics,
  Ssim |-> Ssim_metrics, ErrorStat |-> ErrorStat_metrics, Clipping |-> Clipping_metrics,
  OutOfBounds |-> OutOfBounds_metrics, DataGap |-> DataGap_metrics, Entropy |-> Entropy_metrics,
  Gradlength |-> Gradlength_metrics, InputStats |-> InputStats_metrics, Size |-> Size_metrics,
  SobolevP2 |-> SobolevP2_metrics, External |-> External_metrics, Noop |-> Noop_metrics, Time |-> Time_metrics,
  Rusage |-> Rusage_metrics ]
AllWraps == [ none |-> Alone, composite |-> Composite_hooks, time |-> Time_hooks, historian |-> Historian_hooks,
              mask |-> Mask_hooks ]
AllObjects == {[wrap |-> "none", kinds |-> {k}] : k \in DOMAIN AllMetrics} \cup
              {[wrap |-> w, kinds |-> {"DataGap"}] : w \in DOMAIN AllWraps} \cup
              { [wrap |-> "mask", kinds |-> {"ErrorStat"}], [wrap |-> "mask", kinds |-> {"Time"}],
              [wrap |-> "composite", kinds |-> {"Entropy", "Size"}],
                [wrap |-> "historian", kinds |-> {"MaxError"}] }
\* each plugin is fresh in an initial state already: one that measures and one that does not will do
SpareObjects == {[wrap |-> "none", kinds |-> {"Time"}], [wrap |-> "mask", kinds |-> {"ErrorStat"}]}
\* one buffer; none, one and two buffers
OneBuffers == {<<"a">>, <<"b">>, <<"ints">>, <<"deep">>, <<"empty">>}
ManyBuffers == {<<>>, <<"a">>, <<"a", "b">>}

EarlyMetrics == {"Clipping", "OutOfBounds", "Gradlength", "InputStats", "SobolevP2", "External"}
LostHooks == {<<"mask", "DataGap">>, <<"mask", "Time">>}
LateMetrics == {"ErrorStat"}
PassedOver == [Ssim |-> {"ints"}, SobolevP2 |-> {"ints"}, DataGap |-> {"deep"}]
=============================================================================
