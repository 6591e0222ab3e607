------------------------- MODULE MCModuleLifecycle --------------------------
(* Loading, unloading and plugging, any number of times.                   *)
EXTENDS ModuleLifecycle
=============================================================================
