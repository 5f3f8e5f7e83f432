\* Every consensus model and every set of failing constructors: does a
\* failed GenerateSubrounds leave a partial chain behind?
CONSTANTS
    v1 = v1
    v2 = v2
    vOther = vOther
    Models <- MCModels
    ModelV1 = v1
    ModelV2 = v2
    Constructors <- MCConstructors
    GroupSize = 4

SPECIFICATION Spec

INVARIANT
    NoPartialChain
