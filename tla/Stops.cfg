\* A paper or a real position, every setting of its stops, and four prices, between
\* which each trail finds a level of its own.
CONSTANTS
    Prices = {98, 100, 103, 107}
    Percents = {0, 2, 50}
    Jumps = {0, 2}
    Slips = {0, 2}
    None = none
SPECIFICATION Spec
INVARIANTS TypeOK StopAboveFloor
PROPERTIES StopRatchets StopHonoured TrailLosesSlippageOnly
