CONSTANTS
    s1 = s1
    s2 = s2
    s3 = s3
    Services <- MCServices
    RetryCooldown = 3
SPECIFICATION FairSpec
PROPERTIES
    LaunchableAgain
