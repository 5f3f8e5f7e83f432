--------------------------- MODULE SubroundsFactory ---------------------------
(***************************************************************************)
(* The BLS subrounds factory (consensus/spos/bls/blsSubroundsFactory.go). *)
(* NewSubroundsFactory checks its dependencies; GenerateSubrounds sets the *)
(* thresholds, clears the chronology and the worker's message calls, then  *)
(* builds the Start, Block, Signature and End-Round subrounds in turn: each *)
(* is constructed, wrapped in its V2 variant for ConsensusModelV2, its      *)
(* handlers are registered with the worker and it is added to the          *)
(* chronology.  The first error is returned at once.                       *)
(*                                                                         *)
(* The constructors the factory calls (spos.NewSubround, NewSubroundBlock, *)
(* NewSubroundBlockV2, SetOutportHandler, ...) live outside this file;     *)
(* whether each fails is chosen in Init (failing).  A subround is its   *)
(* previous, current and next ids and its variant; time windows are left   *)
(* out.                                                                    *)
(***************************************************************************)
EXTENDS Integers, Sequences, FiniteSets

CONSTANTS
    Models,          \* consensus models the configuration may name
    ModelV1,         \* consensus.ConsensusModelV1
    ModelV2,         \* consensus.ConsensusModelV2
    Constructors,    \* the calls that may fail, named as below
    GroupSize        \* consensusState.ConsensusGroupSize()

ASSUME {ModelV1, ModelV2} \subseteq Models /\ GroupSize \in Nat \ {0}

SrStartRound == 0
SrBlock      == 1
SrSignature  == 2
SrEndRound   == 3
NoSubround   == -1

VARIABLES
    model,         \* fct.consensusModel
    failing,       \* the constructor calls that return an error
    depsValid,     \* checkNewFactoryParams would pass
    created,       \* NewSubroundsFactory returned a factory
    chronology,    \* the chronology's subrounds, in the order added
    messageCalls,  \* the worker's receivedMessagesCalls: << type, subround id, variant >>
    headerHandlers,\* the worker's received header handlers: << subround id, variant >>
    thresholds,    \* SetThreshold / SetFallbackThreshold per subround
    result         \* "none" before GenerateSubrounds returns, then "ok" or "err"

vars == << model, failing, depsValid, created, chronology, messageCalls,
           headerHandlers, thresholds, result >>

Subround(prev, cur, next, variant) ==
    [previous |-> prev, current |-> cur, next |-> next, variant |-> variant]

\* A step of GenerateSubrounds: what it adds, and whether it failed.
Step(err, subrounds, calls, headers) ==
    [err |-> err, subrounds |-> subrounds, calls |-> calls, headers |-> headers]
Failed == Step(TRUE, << >>, {}, << >>)

-----------------------------------------------------------------------------

\* NewSubroundsFactory: checkNewFactoryParams rejects a missing consensus
\* core, state, worker or status handler and an empty chain id.
NewSubroundsFactory ==
    /\ ~created /\ result = "none"
    /\ depsValid
    /\ created' = TRUE
    /\ UNCHANGED << model, failing, depsValid, chronology, messageCalls,
                    headerHandlers, thresholds, result >>

\* initConsensusThreshold
initConsensusThreshold ==
    [ threshold |-> [s \in {SrBlock, SrSignature} |->
                        IF s = SrBlock THEN 1 ELSE (GroupSize * 2) \div 3 + 1],
      fallback  |-> [s \in {SrBlock, SrSignature} |->
                        IF s = SrBlock THEN 1 ELSE (GroupSize * 1) \div 2 + 1] ]

\* generateStartRoundSubround: NewSubround, NewSubroundStartRound and
\* SetOutportHandler may fail; the subround registers no handler.
generateStartRoundSubround ==
    IF {"NewSubroundStart", "NewSubroundStartRound", "SetOutportHandler"} \cap failing # {}
    THEN Failed
    ELSE Step(FALSE, << Subround(NoSubround, SrStartRound, SrBlock, "V1") >>, {}, << >>)

\* generateBlockSubroundV1
generateBlockSubroundV1 ==
    {"NewSubroundBlockBase", "NewSubroundBlock"} \cap failing = {}

\* generateBlockSubround: the three block message types go to the V1 or the
\* V2 instance; any other model is ErrUnimplementedConsensusModel.
generateBlockSubround ==
    LET calls(v) == { << t, SrBlock, v >> : t \in {"MtBlockBodyAndHeader", "MtBlockBody", "MtBlockHeader"} }
        added(v) == Step(FALSE, << Subround(SrStartRound, SrBlock, SrSignature, v) >>, calls(v), << >>)
    IN CASE ~generateBlockSubroundV1                                  -> Failed
         [] model = ModelV1                                           -> added("V1")
         [] model = ModelV2 /\ "NewSubroundBlockV2" \notin failing    -> added("V2")
         [] OTHER                                                     -> Failed

\* generateSignatureSubroundV1
generateSignatureSubroundV1 ==
    {"NewSubroundSignatureBase", "NewSubroundSignature"} \cap failing = {}

\* generateSignatureSubround: MtSignature goes to the V1 or the V2 instance.
generateSignatureSubround ==
    LET added(v) == Step(FALSE, << Subround(SrBlock, SrSignature, SrEndRound, v) >>,
                         {<< "MtSignature", SrSignature, v >>}, << >>)
    IN CASE ~generateSignatureSubroundV1                                -> Failed
         [] model = ModelV1                                             -> added("V1")
         [] model = ModelV2 /\ "NewSubroundSignatureV2" \notin failing  -> added("V2")
         [] OTHER                                                       -> Failed

\* NewSubroundEndRound: checkNewSubroundEndRoundParams (subround, state,
\* consensus core) and the nil checks of extend, the proof functions, the
\* status handler and the sent signature tracker; the first that fails is
\* returned and no subround is built.
NewSubroundEndRound == "NewSubroundEndRound" \notin failing

\* generateEndRoundSubroundV1
generateEndRoundSubroundV1 ==
    "NewSubroundEndRoundBase" \notin failing /\ NewSubroundEndRound

\* generateEndRoundSubround: final info and invalid signers messages, and
\* the received header handler, go to the V1 or the V2 instance.
generateEndRoundSubround ==
    LET calls(v) == { << t, SrEndRound, v >> : t \in {"MtBlockHeaderFinalInfo", "MtInvalidSigners"} }
        added(v) == Step(FALSE, << Subround(SrSignature, SrEndRound, NoSubround, v) >>,
                         calls(v), << << SrEndRound, v >> >>)
    IN CASE ~generateEndRoundSubroundV1                                -> Failed
         [] model = ModelV1                                            -> added("V1")
         [] model = ModelV2 /\ "NewSubroundEndRoundV2" \notin failing  -> added("V2")
         [] OTHER                                                      -> Failed

\* The four generate steps, in the order GenerateSubrounds calls them.
GenerateSteps ==
    << generateStartRoundSubround, generateBlockSubround,
       generateSignatureSubround, generateEndRoundSubround >>

\* How many steps run: up to and including the first that fails.
StepsRun ==
    LET failed == { i \in 1 .. 4 : GenerateSteps[i].err }
    IN IF failed = {} THEN 4 ELSE CHOOSE i \in failed : \A j \in failed : i <= j

\* GenerateSubrounds: the thresholds are set and the chronology and the
\* message calls cleared first; the header handlers are not cleared.  Each
\* step that succeeds has added its subround and handlers before the next
\* one runs.
GenerateSubrounds ==
    LET ran  == [i \in 1 .. StepsRun |-> GenerateSteps[i]]
        kept == { i \in 1 .. StepsRun : ~ran[i].err }
    IN /\ created /\ result = "none"
       /\ thresholds' = initConsensusThreshold
       /\ chronology' = [k \in 1 .. Cardinality(kept) |-> ran[k].subrounds[1]]
       /\ messageCalls' = UNION { ran[i].calls : i \in kept }
       /\ headerHandlers' = headerHandlers \o
             IF 4 \in kept THEN ran[4].headers ELSE << >>
       /\ result' = IF StepsRun = 4 /\ ~ran[4].err THEN "ok" ELSE "err"
       /\ UNCHANGED << model, failing, depsValid, created >>

Init ==
    /\ model \in Models
    /\ failing \in SUBSET Constructors
    /\ depsValid \in BOOLEAN
    /\ created = FALSE
    /\ chronology = << >>
    /\ messageCalls = {}
    /\ headerHandlers = << >>
    /\ thresholds = [threshold |-> << >>, fallback |-> << >>]
    /\ result = "none"

\* A factory that was not created, or whose chain was generated once, is
\* left alone by the node.
Settled == (~depsValid \/ result # "none") /\ UNCHANGED vars

Next == NewSubroundsFactory \/ GenerateSubrounds \/ Settled

Spec == Init /\ [][Next]_vars

-----------------------------------------------------------------------------

\* The phase chain factory fails fast and never partially constructs a
\* chain (spec 4.2): when GenerateSubrounds returns an error, no subround
\* is left in the chronology and no handler with the worker.
NoPartialChain ==
    result = "err" => chronology = << >> /\ messageCalls = {} /\ headerHandlers = << >>

=============================================================================
