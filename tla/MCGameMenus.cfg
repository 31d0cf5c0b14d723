SPECIFICATION Spec
CONSTANTS
    Kinds <- MCKinds
    Usable <- MCUsable
    Droppable <- MCDroppable
    Consumed <- MCConsumed
    Book = {5}
    Special = {2}
    Cats <- MCCats
    Fits <- MCFits
    Allowed <- MCAllowed
    Bonus <- MCBonus
    Members = {0, 1}
    SlotN = 2
    Bags <- MCBags
    Worn <- MCWorn
    Teams <- MCTeams
    Actors <- MCActors
    Skills <- MCSkills
    BattleItems <- MCItems
    Able <- MCAble
INVARIANTS
    RepositoryIsSound
    ConfirmsShownEntry
    CommandsReachable
