----------------------------- MODULE MCDiscovery -----------------------------
(* A session whose main transcript is in the first or the last of three project *)
(* directories, or moves between them, its children in others, with a workflow. *)
EXTENDS Discovery

CONSTANTS app, scratch, worktree, wf

At(project, place, kind) == [project |-> project, place |-> place, run |-> None, kind |-> kind]
InRun(project, kind) == [project |-> project, place |-> "run", run |-> wf, kind |-> kind]

ByName == <<app, scratch, worktree>>

Layout == { At(app, "project", "main"), At(app, "subagents", "meta"), InRun(app, "journal"),
            At(scratch, "subagents", "agent"), InRun(scratch, "agent"), At(scratch, "scripts", "script"),
            At(worktree, "workflows", "manifest"), At(worktree, "workflows", "other"),
            At(worktree, "project", "main") }
=============================================================================
