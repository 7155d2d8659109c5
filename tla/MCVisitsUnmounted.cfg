CONSTANTS
    Parts = {"page"}
    home = home
    styled = styled
    local = local
    raw = raw
    a = a
    b = b
    c = c
    d = d
    t1 = t1
    t2 = t2
    MaxOps = 3
    MaxLost = 1
    Urls = {home, styled, local, raw}
    Home = home
    Local = {local}
    Raw = {raw}
    Styled = {styled}
    Guards <- MCGuards
    Entries = {home, local, raw}
    Worlds <- MCWorlds
    MaxSite = 2
    MaxNavs = 2
    MaxIntents = 1
    Signals = {a, b, c, d}
    Inputs = {a, b}
    Alike = {a, c}
    NoSignal = NoSignal
    Programs <- MCPrograms
    MaxWrites = 2
    Tabs = {t1}
    Room = 2
    MaxEdits = 3
    MaxBreaks = 1
    Marks <- MCMarks
    NoMark = "none"
    Says = {"x", "y"}
    MaxMarks = 2
    MaxNodes = 3
    Routes = {"list", "edit", "plain"}
    Firsts = {"plain"}
    Table = {"list", "edit"}
    Wasm = {"list", "edit"}
    Makes <- MCMakes
    Islands <- MCIslands
    Shell = {"menu"}
    MaxGoes = 2
SPECIFICATION ClientSpec
CHECK_DEADLOCK FALSE
INVARIANT
    VisitsAreMounted
