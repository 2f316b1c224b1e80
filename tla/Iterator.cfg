\* Up to three files or blocks and all ranges over four keys.
SPECIFICATION Spec
CONSTANTS
    Keys = {1, 2, 3, 4}
    MaxItems = 3
    None = None
INVARIANTS TypeOK NothingPassedOver ErrorsAreReported
