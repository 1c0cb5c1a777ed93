---------------------------- MODULE MCPersonalPaper ----------------------------
(***************************************************************************)
(* Instances of PersonalPaper for TLC: two books, one that decides at      *)
(* every close and leaves at the second, one that decides once more; four  *)
(* markets that fall within a day, over days, or recover.                  *)
(***************************************************************************)
EXTENDS PersonalPaper, TLC

CONSTANTS monthly, quarterly

MCCadence == (monthly :> {2, 3}) @@ (quarterly :> {3})
MCWants == (monthly :> {1, 3}) @@ (quarterly :> {1, 2})

Market(open, close, dividend) == [open |-> open, close |-> close, dividend |-> dividend]
MCMarkets ==
    { Market(<<25, 25, 25>>, <<25, 25, 25>>, <<0, 0, 1>>),
      Market(<<25, 25, 25>>, <<25, 24, 24>>, <<0, 0, 0>>),
      Market(<<25, 25, 24>>, <<25, 25, 23>>, <<0, 0, 0>>),
      Market(<<25, 26, 24>>, <<25, 24, 26>>, <<0, 1, 1>>) }
==============================================================================
