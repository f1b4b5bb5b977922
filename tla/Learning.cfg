CONSTANTS
    Procs = {p1}
    Caps = {"code", "research", "verify"}
    Objectives <- MCObjectives
    TypeOf <- MCTypeOf
    Permissions <- MCPermissions
    DeniedPerms = {}
    ApprovalPerms = {"net"}
    ApprovalTypes = {}
    Leaky = {}
    SkillThreshold = 2
    FailureThreshold = 2
    MaxEpisodes = 4
SPECIFICATION Spec
INVARIANTS
    SkillEarned
    OneSkillPerSignature
    SkillFalls
    DenialEarned
    PlansAreChains
PROPERTY NoDenialForgotten
CHECK_DEADLOCK FALSE
