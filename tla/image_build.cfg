SPECIFICATION Spec
CONSTANTS
    Schemes = {"none", "ecdsa-p256", "rsa-2048"}
    MaxKeys = 2
    MaxVersions = 2
INVARIANTS
    LoaderHasTheKey
    UpgradeIsCurrent
    
