SPECIFICATION Spec
CONSTANTS
    None = None
    olga = olga
    adam = adam
    mia = mia
    t1 = t1
    t2 = t2
    a1 = a1
    a2 = a2
    i1 = i1
    i2 = i2
    i3 = i3
    Members = {olga, adam, mia}
    Me = olga
    Teams = {t1, t2}
    Addresses = {a1, a2}
    Invitations = {i1, i2, i3}
    Pages = {"people", "teams", "invitations", "invite", "transfer"}
    Starts <- MCStarts
    Seats = 3
    Slots = {1, 2}
    MaxClicks <- MCMaxClicks
    MaxOthers = 1
INVARIANTS TypeOK SuccessIsShown
PROPERTIES ActsOnWhatWasShown BusyEnds
CONSTRAINT Short
CHECK_DEADLOCK FALSE
