\* As MCServices_run, with a line that is longer than a row.
SPECIFICATION ServicesSpec
CONSTANTS
    MAX_PAGES = 5
    Reserved = 1
    UserPages = 2
    Name = {"block0", "char0"}
    MaxHeld = 1
    VGA_WIDTH = 4
    VGA_HEIGHT = 2
    TabStop = 2
    SHELL_BUFFER_SIZE = 5
    Prompt <- MCPrompt
    Printable = {"x", " "}
    ClearCommand <- MCClear
    DigitCol = 2
    MouseBytes = {1, 128, 255}
    MaxUsers = 2
    MaxAcl = 3
    UserName = {"long", "longer"}
    Uid = {0, 1}
    Password = {"", "p"}
    Resource = {"longer", "/dev"}
    Permissions = {{"read"}}
    NameKept <- MCNameKept
    PasswordKept <- MCPasswordKept
    ResourceKept <- MCResourceKept
    CoolLimit = 1
    Warm = 2
    Hot = 3
    HeatLimit = 4
    BootHeat = 3
    ThermalPeriod = 2
    DischargePeriod = 2
    BootCharge = 1
    BootMinutes = 2
    Frequencies = {99, 100, 2000}
    FanSpeeds = {499, 5000}
    Throttles = {9, 50, 101}
    LOG_BUFFER_SIZE = 4
    MonitorWord = 8
    MAX_TIMERS = 2
    NameSize = 2
    Message = {"m"}
    TimerName <- MCTimerName
    MaxStamp = 6
    MaxUptime = 1
    LogSize = 4
    WordSize = 256
    Formats <- MCFormats
    Arguments <- MCArguments
    Levels = {0, 1}
INVARIANT LineShown
CHECK_DEADLOCK FALSE
