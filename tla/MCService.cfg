\* Three commands at once on either platform, with failures at any point.
CONSTANTS
    Commands = {c, d, e}
    Platforms = {"linux", "mac"}
    MaxFailures = 2
SPECIFICATION FairSpec
PROPERTIES LoneCommandWorks UnitSurvives OnlyRacesDisable StartsHeal
