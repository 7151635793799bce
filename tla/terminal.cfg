\* The telnet client's terminal loop and prompt.
SPECIFICATION Spec
CONSTANTS
    Options <- TerminalOptions
    Autologin = FALSE
    HasDisplay = FALSE
    Hosted = FALSE
    MaxEvents = 4
    MaxAsks = 1
    MaxSessions = 2
    Room = 6
\* A user who does nothing and a program that has ended stop the system.
CHECK_DEADLOCK FALSE
INVARIANTS
    Restored
    Follows
    Keystrokes
    Shown
