CONSTANTS
    MaxDiff = 401
    Ratings = {1500, 2399, 2400}
    Played = {0, 29, 30}
SPECIFICATION EloSpec
INVARIANTS
    WinnerGains
    SidesAgree
