----------------------- MODULE MCValidatorStatistics -----------------------
(***************************************************************************)
(* ValidatorStatistics for TLC: three validators, two shards, five rounds; *)
(* the consensus group rotates with the round and differs per chain.       *)
(***************************************************************************)
EXTENDS ValidatorStatistics

CONSTANTS va, vb, vc

MCValidators == {va, vb, vc}

Rotation == << va, vb, vc >>

MCGroup(chain, round) ==
    LET k == (round + (IF chain = MetachainShardId THEN 1 ELSE chain)) % 3
    IN << Rotation[k + 1], Rotation[((k + 1) % 3) + 1] >>

=============================================================================
