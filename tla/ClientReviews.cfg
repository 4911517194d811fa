CONSTANTS
    OpenPages = {"score", "editor", "review", "signups"}
    MaxOthers = 1
    MaxSent = 2
    None = None
    Fields = {"intro"}
    Required = {"intro"}
    Inputs = {"", "x", "X"}
    Plain <- PlainOf
    Images = {"avatar", "banner"}
    MaxImages = 1
    MaxOut = 2
    Numbers = {1, 2}
    Titles = {"a", "b", "c"}
    Titled <- TwoTitles
    MaxSaves = 1
    Managed = {"official", "reader"}
    ClubIds = {"chess", "choir"}
    AccountKeys = {"k", "l", "x"}
    Catalogue = {"k", "l"}
    OwnKeys = {"k", "x"}
    AccountsAtStart <- FourAccounts
    ScoredInOrder <- ChessAndChoir
    Items = {"plan"}
    Points = {1}
    ScoresAtStart <- NoScores
    Files = {"photo", "paper"}
    Photos = {"photo"}
    Room = 2
    MinPhotos = 1
    HeldKeys = {"submit"}
    MaxText = 2
    MaxMade = 2
    MaxLost = 2
    ReviewKeys = {"advisor", "chief"}
    Checks = {"photos"}
    MaxAsked = 1
    MaxTurns = 2
    MaxOpened = 1
    MaxEdits = 1
    MaxUnanswered = 1
    SessionNames = {"meeting"}
    MaxFields = 3
    MaxChanges = 1
SPECIFICATION Spec
CHECK_DEADLOCK FALSE
INVARIANTS ScoresOfTheirClub SavedOnceAndWhole CloseIsJudgedFresh SignupsInv
PROPERTIES NoClubIsLeftOut SignedAsShown SignupsStay
