SPECIFICATION Spec
CONSTANTS
    app = app
    scratch = scratch
    worktree = worktree
    wf = wf
    None = None
    Projects <- ByName
    Files <- Layout
    Include = {app}
    Exclude = {scratch}
    MaxChanges = 2
    MaxErrors = 1
INVARIANTS StableSourcesFound PrimaryDecides
