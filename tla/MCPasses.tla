--------------------------------- MODULE MCPasses ---------------------------------
(* What a pass does to files, and on which project rows it books it.        *)
(* Tailing a file never asks which project it belongs to, and a resolution  *)
(* never opens a file, so they share no state: `focus`, chosen at the       *)
(* start, says which of the two moves.                                      *)
EXTENDS MCIngestTail, MCProjects

VARIABLE focus

passVars == <<focus, vars, projectVars>>

PassesInit == focus \in {"files", "projects"} /\ Init /\ ProjectsInit

Reading(A)  == focus = "files" /\ A /\ UNCHANGED <<focus, projectVars>>
Resolves(A) == focus = "projects" /\ A /\ UNCHANGED <<focus, vars>>

PassesNext == Reading(Next) \/ Resolves(ProjectsNext)

\* Fairness of IngestTail and ProjectsFair of Projects, each while its module
\* moves.
PassesFair ==
    /\ \A p \in Passes :
        WF_passVars(Reading(GoesOn(p))) /\ \A f \in Files : SF_passVars(Reading(Stat(p, f)))
    /\ \A p \in Resolvers : WF_passVars(Resolves(Proceed(p)))

PassesSpec == PassesInit /\ [][PassesNext]_passVars /\ PassesFair
==================================================================================
