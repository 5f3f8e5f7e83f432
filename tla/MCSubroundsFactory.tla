------------------------- MODULE MCSubroundsFactory -------------------------
(***************************************************************************)
(* SubroundsFactory for TLC: the two implemented consensus models and one *)
(* the factory does not know; every constructor call it makes may fail.   *)
(***************************************************************************)
EXTENDS SubroundsFactory

CONSTANTS v1, v2, vOther

MCModels == {v1, v2, vOther}

MCConstructors ==
    { "NewSubroundStart", "NewSubroundStartRound", "SetOutportHandler",
      "NewSubroundBlockBase", "NewSubroundBlock", "NewSubroundBlockV2",
      "NewSubroundSignatureBase", "NewSubroundSignature", "NewSubroundSignatureV2",
      "NewSubroundEndRoundBase", "NewSubroundEndRound", "NewSubroundEndRoundV2" }

=============================================================================
