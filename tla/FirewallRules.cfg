\* One rule of each group and one program; three events.
SPECIFICATION Spec
CONSTANTS
    Doh = {doh}
    Plain = {plain}
    Bypass = {bypass}
    Raw = {raw}
    Global = {global}
    Programs = {node}
    MaxEvents = 3
INVARIANTS
    LockedIsTrue
    RemovalIsComplete
    ExceptionsEndWithTheMode
\* Without an active challenge the app has nothing to do.
CHECK_DEADLOCK FALSE
