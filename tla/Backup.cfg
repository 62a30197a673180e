SPECIFICATION SpecServing
CONSTANTS
    Servers = {server}
    OldServers = {}
    Commands = {command}
    Offline = {mover}
    Backups = {manual, auto}
    Deletions = {sweep}
    Host <- HostOf
    Contents = {c1}
    Names = {0, 1, 2, 3, 4}
    Scheduled = {command}
    Keep = 2
    MaxFaults = 1
    Nil = nil
    server = server
    command = command
    auto = auto
    manual = manual
    sweep = sweep
    mover = mover
    c1 = c1
INVARIANTS BackupsWhole RestoresWhole MigrationWhole
PROPERTY RotationKeepsNewest
