------------------------------ MODULE MCActivity ------------------------------
(* Constants of Activity for TLC. *)
EXTENDS Activity, TLC

Allowed == ("enforcement_only" :> {"capability"}) @@ ("metadata" :> {"capability", "category"})
             @@ ("granular" :> {"capability", "category", "value"})
Normalised == ("tv" :> "tv") @@ ("TV" :> "tv") @@ ("broadcast" :> Nobody)

\* Nothing set; a device set below its person.
InitialLevels == {<<None, None>>, <<"granular", "enforcement_only">>}

===============================================================================
