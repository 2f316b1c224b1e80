\* Two loads at a time, a restart of the server with fewer sources, two changes of the selection.
SPECIFICATION FairSpec

CONSTANTS
    Configs <- SecondOfTwo
    Slots = {l1, l2}
    MaxChanges = 2
INVARIANTS TypeOK OneSelectionShown
PROPERTIES SelectionIsShown SourceBecomesAvailable ErrorsGoAway
CHECK_DEADLOCK FALSE
