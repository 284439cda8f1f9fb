SPECIFICATION TSpec
CONSTANTS
    Tasks = {t1, mt}
    MailTask = mt
    None = None
    Cooldown = 2
    AgeCap = 2
    MaxUid = 2
    MailCooldown = 2
    NoUid = NoUid
    MailAgeCap = 2
INVARIANTS AutoRefreshAlone RunLockFreeOutside MailAnsweredOnce MailNotForgotten
PROPERTIES  RowsInOrder
