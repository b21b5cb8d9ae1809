SPECIFICATION CellsSpec
CONSTANTS
    Actors = {"ann", "bob"}
    Admins = {}
    Founder = "ann"
    Members = {}
    Stewards = {}
    Cells = {1, 2}
    Facts = {}
    Requests = {1, 2}
    Ops = {"update"}
    MaxAsks = 2
PROPERTY EditorsDoNotFlipVisibility
CHECK_DEADLOCK FALSE
