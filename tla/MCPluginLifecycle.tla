------------------------- MODULE MCPluginLifecycle --------------------------
(* The plugin and its detours with the three effects of GetAllEffects().   *)
EXTENDS HookCalls

MCEffects == <<"population", "suzerain", "strength">>
=============================================================================
