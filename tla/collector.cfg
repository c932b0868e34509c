SPECIFICATION Spec
SYMMETRY Symmetry
CONSTANTS
    Objs = {o1, o2}
    Envs = {g, e1}
    G = g
    NoEnv = NoEnv
    Wrap = 3
    MaxRounds = 2
    MaxNoise = 1
INVARIANTS ReachableKept TouchesAlive LeftWhole
