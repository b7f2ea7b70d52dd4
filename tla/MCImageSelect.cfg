SPECIFICATION Spec
CONSTANTS
    Images = {image1, image2, image3}
    MaxDate = 2
    Keys <- FilterKeys
    Parameter <- FilterParameter
    NoImage = NoImage
SYMMETRY Symmetry
INVARIANTS
    MostRecentChosen
    ChoiceUnambiguous
