SPECIFICATION SpecFocus
CONSTANTS
    Users = {ann, bob, mod, adm}
    Role <- Roles
    Files = {f1, f2}
    Albums = {1, 2}
    TagIds = {t1, t2}
    Titles = {"t"}
    Names = {"n"}
    Links = {"l"}
    Levels = {"private", "members", "public"}
    Policies = {"inherit", "shown", "hidden"}
    FilePatches <- AFilePatch
    AlbumPatches <- AnAlbumPatch
    ListLimit = 1
    Requests = {h1, h2}
    Reports = {r1, r2}
    Anonymous = anyone
    Nil = nil
    ann = ann
    bob = bob
    mod = mod
    adm = adm
    f1 = f1
    f2 = f2
    a1 = 1
    a2 = 2
    t1 = t1
    t2 = t2
    t3 = t3
    r1 = r1
    r2 = r2
    h1 = h1
    h2 = h2
    anyone = anyone
SYMMETRY Symmetric
CHECK_DEADLOCK FALSE
PROPERTY OmittedFieldsStay
