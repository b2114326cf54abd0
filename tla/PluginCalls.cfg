SPECIFICATION Spec
CONSTANTS
  Thread = {t1, t2}
  Calls <- AllCalls
  Locks = {"sz"}
  Keeps <- KeptResources
  Quiet <- QuietCalls
  Disturbs <- KnownDisturbances
INVARIANTS Released  Undisturbed
