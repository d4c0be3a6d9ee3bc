SPECIFICATION Spec
CONSTANTS
    honest = honest
    changed = changed
    upstream = upstream
    fork = fork
    NoSkillMd = NoSkillMd
    None = None
    Skills <- MCSkills
    Repos = {upstream, fork}
    Contents = {honest, changed}
SYMMETRY Symmetry
INVARIANTS TypeOK RunLeavesTrusted OfflineAgrees
PROPERTIES HashIsKept
