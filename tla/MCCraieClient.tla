--------------------------- MODULE MCCraieClient ---------------------------
(***************************************************************************)
(* Command files for TLC: each differs from the others in a few keys, so   *)
(* that keys appear, change, vanish and come back, with usable values,     *)
(* with void ones and with values of a wrong type.                         *)
(***************************************************************************)
EXTENDS CraieClient, TLC

With(f) == f @@ Blank

MCContents ==
    {With(("driving_state" :> "one") @@ ("image" :> "one")
          @@ ("reset_craie_config" :> "void") @@ ("llm" :> "two")),
     With(("driving_state" :> "two") @@ ("poi_list" :> "one")
          @@ ("reset_craie_config" :> "one")),
     With(("poi_list" :> "two") @@ ("image" :> "wrong")
          @@ ("text_summary" :> "void")),
     With(("driving_state" :> "one") @@ ("tablet_display_mode" :> "wrong")
          @@ ("llm" :> "one")),
     With(("image" :> "two") @@ ("text_summary" :> "one")
          @@ ("start_pairing_tablet" :> "one") @@ ("llm" :> "one"))}
=============================================================================
