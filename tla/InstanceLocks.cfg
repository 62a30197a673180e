SPECIFICATION FairLockSpec
CONSTANTS
    Servers = {s1, s2}
    OldServers = {old}
    Commands = {command}
    Offline = {offline}
    Backups = {auto, manual}
    Deletions = {sweep}
    Host <- HostOf
    s1 = s1
    s2 = s2
    old = old
    command = command
    offline = offline
    auto = auto
    manual = manual
    sweep = sweep
INVARIANTS OneAtATime SnapshotsPinned
PROPERTY DeletionsResume
