---------------------------- MODULE HookModeMC ----------------------------
(* Bounds for model checking HookMode.tla. *)
EXTENDS HookMode, TLC

CONSTANTS a, b, c

TwoVersions ==
    << (a :> "none" @@ b :> "english" @@ c :> "tsf"),
       (a :> "vietnamese" @@ b :> "none" @@ c :> "none") >>

Budget(sw, t, k, r) == [switch |-> sw, toggle |-> t, key |-> k, reload |-> r]
Mixed == {Budget(2, 1, 0, 0), Budget(1, 1, 1, 0), Budget(1, 0, 0, 1)}
Config(smart, cjk) == [smart |-> smart, cjk |-> cjk]
AllConfigs == {Config(TRUE, FALSE), Config(FALSE, TRUE)}
SmartAndCjk == {Config(TRUE, TRUE)}
=============================================================================
