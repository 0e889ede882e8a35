SPECIFICATION Spec
CONSTANTS
    Cards <- SomeCards
    Audible <- PlayedCards
    Sizes <- SomeSizes
    Rates = {11025, 22050}
    Buffer = 131072
INVARIANTS
    DetectInv
    PlaybackInv
