SPECIFICATION Spec
SYMMETRY Symmetry
CONSTANTS
    NoEnv = NoEnv
    NoFunc = NoFunc
    G = g
    Envs = {g, e1, e2}
    Funcs = {f1, f2}
    MaxFrames = 3
    MaxCalls = 1
INVARIANTS ChainIsStack DepthExact CountsExact NothingDangles
