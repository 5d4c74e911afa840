--------------------------------- MODULE MCBoard ---------------------------------
(* The board, the agents that work from it and the projects that both hang  *)
(* on.  Todos follows the text and the status of what transcripts report,   *)
(* Deployments only whether a todo is over, and Projects lets the minutes   *)
(* of usage stand for all that follows a merge, so the three share no       *)
(* state: `focus`, chosen at the start, says which of them moves.           *)
EXTENDS MCTodos, MCDeployments, MCProjects

VARIABLE focus

boardVars == <<focus, vars, deployVars, projectVars>>

BoardInit ==
    /\ focus \in {"todos", "agents", "projects"}
    /\ Init /\ DeployInit /\ ProjectsInit
    /\ focus # "todos" => transcript = CHOOSE t \in Transcripts : TRUE

\* Bound: beside transcripts of two sessions only two requests or faults.
Sparing == (\A s \in Sessions : transcript[s] # <<>>) => board' + deaths' + rebuilds' <= 2

BoardNext ==
    /\ UNCHANGED focus
    /\ \/ focus = "todos"    /\ Next /\ Sparing /\ UNCHANGED <<deployVars, projectVars>>
       \/ focus = "agents"   /\ DeployNext /\ UNCHANGED <<vars, projectVars>>
       \/ focus = "projects" /\ ProjectsNext /\ UNCHANGED <<vars, deployVars>>

BoardSpec == BoardInit /\ [][BoardNext]_boardVars

\* All three modules keep their types.
BoardTypeOK == TypeOK /\ DeployTypeOK /\ ProjectsTypeOK
==================================================================================
