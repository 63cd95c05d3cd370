CONSTANTS
    Navigators = {pose, poses, other}
    Nobody = Nobody
SPECIFICATION Spec
INVARIANTS OwnerNavigates
